---- MODULE Spec2Model ----
(***************************************************************************)
(* AuditFlow claim analysis pipeline: the reasoning agent (services/agent) *)
(* and the retrieval engine (services/rag).                                *)
(*                                                                         *)
(* Conventions.  Scores and confidences are integers in hundredths         *)
(* (0.5 is 50).  A text is a record [id, len, rewrite]: its identity, its  *)
(* length in characters and the query rewrite applied to it; a Python       *)
(* slice s[:n] is Prefix(s, n).  An optional value is a sequence of length  *)
(* 0 or 1.                                                                 *)
(***************************************************************************)
EXTENDS Integers, Sequences, FiniteSets, TLC

\* ------------------------------------------------------------- bounds
\* Lines in one Reasoning Oracle response.
MaxLines == 3
\* Rows ever inserted into policy_chunks in one behaviour of SpecRag.
MaxInserts == 3
\* Chunks in one ingest request.
MaxBatch == 2
\* Rows of the policy_chunks table a search of SpecSearch runs against.
MaxRows == 3
\* phrases a claim text of the router is made of
MaxPhrases == 2
\* acquisitions waiting for a connection
MaxWaiters == 3
\* timeout periods an acquisition is followed for
MaxPeriods == 2

\* ---------------------------------------------------------- vocabulary
Regions == {"SG", "AU"}
Categories == {"Home", "Business"}

DecisionEnum == {"COVERED", "NOT_COVERED", "PARTIAL", "NEEDS_REVIEW"}

StepTypeEnum == {"THINK", "ACT", "OBSERVE", "DECIDE"}

Min(a, b) == IF a <= b THEN a ELSE b

Abs(a) == IF a >= 0 THEN a ELSE 0 - a

Text(id, len) == [id |-> id, len |-> len, rewrite |-> "none"]

\* s[:n]
Prefix(s, n) == [s EXCEPT !.len = Min(s.len, n)]

SeqToSet(s) == {s[i] : i \in 1..Len(s)}

RECURSIVE SeqsUpTo(_, _)
SeqsUpTo(S, n) ==
    IF n = 0 THEN {<<>>}
    ELSE LET shorter == SeqsUpTo(S, n - 1)
         IN shorter \cup {Append(s, x) : s \in {t \in shorter : Len(t) = n - 1}, x \in S}

\* -------------------------------------------------- request validation
ClaimTextMinLen == 10
ClaimTextMaxLen == 5000
QueryMinLen == 3
QueryMaxLen == 1000

AnalyzeRequest(claim_text, region, category) ==
    [claim_text |-> claim_text, region |-> region, category |-> category]

\* AnalyzeRequest.claim_text: min_length/max_length
AnalyzeRequestValid(claim_text) ==
    claim_text.len >= ClaimTextMinLen /\ claim_text.len <= ClaimTextMaxLen

\* SearchRequest: query length, top_k in [1,20], min_score in [0,1]
SearchRequestValid(req) ==
    /\ req.query.len >= QueryMinLen /\ req.query.len <= QueryMaxLen
    /\ req.top_k >= 1 /\ req.top_k <= 20
    /\ req.min_score >= 0 /\ req.min_score <= 100

\* ------------------------------------------------------ embedding oracle
\* all-MiniLM-L6-v2 is external.  It is modelled as a fixed map from a text
\* to a point of a line of directions; the cosine distance of two points
\* grows with the gap between them.
EmbedText(text) ==
    CASE text.id = "claim_a" /\ text.rewrite = "none"      -> 1
      [] text.id = "claim_a" /\ text.rewrite = "exclusion" -> 4
      [] text.id = "claim_a" /\ text.rewrite = "limit"     -> 5
      [] text.id = "claim_b" /\ text.rewrite = "none"      -> 2
      [] text.id = "claim_b" /\ text.rewrite = "exclusion" -> 3
      [] text.id = "claim_b" /\ text.rewrite = "limit"     -> 6
      [] text.id = "cover_water"    -> 0
      [] text.id = "cover_aircon"   -> 0
      [] text.id = "excl_wear"      -> 3
      [] text.id = "limit_water"    -> 6
      [] text.id = "cover_property" -> 1
      [] OTHER -> 2

\* all-MiniLM-L6-v2: 384 dimensions
EmbeddingDim == 384

\* embedding <=> query, in hundredths
CosineDistance(a, b) == 20 * Abs(a - b)

\* 1 - (embedding <=> query)
SimilarityScore(a, b) == 100 - CosineDistance(a, b)


\* ------------------------------------------------------------- state
VARIABLES
    agent_llm,      \* PolicyReasoningAgent.llm is not None
    runs,           \* the analyze / analyze_stream calls: run id -> its state
    policy_chunks,  \* the policy_chunks table, in insertion order
    next_id,        \* the table's serial id
    rag_request,    \* the retrieval engine's last request (0 or 1 element)
    rag_response,   \* and its response (0 or 1 element)
    rag_faults,     \* what raised while that request was served
    index_dim,      \* the dimension of the vectors stored in policy_chunks
    stats_query,    \* a get_stats call: where it is, and what it has read
    model_loaded,   \* RegionalClassifier.model_loaded
    router_request, \* the router's last request (0 or 1 element)
    router_response,\* and its response (0 or 1 element)
    classify_calls, \* the calls of classifier.classify: the text, and what
                    \* became of the transformer
    pool_in_use,    \* connections of the pool that are acquired
    pool_waiters    \* the acquisitions waiting for a connection, oldest first

agentVars == <<agent_llm, runs>>

ragVars == <<policy_chunks, next_id, rag_request, rag_response, rag_faults, index_dim,
             stats_query>>

routerVars == <<model_loaded, router_request, router_response, classify_calls>>

poolVars == <<pool_in_use, pool_waiters>>

vars == <<agentVars, ragVars, routerVars, poolVars>>

\* ----------------------------------------------------- retrieval engine
\* `if region:` / `if category:`: None and "" add no filter.
FilterSet(f) == f \notin {"None", ""}

\* The WHERE clause without the category condition.
RowQualifies_NoCategory(row, embedding, region, category, min_score) ==
    /\ FilterSet(region) => row.region = region
    /\ SimilarityScore(row.embedding, embedding) >= min_score

\* The WHERE clause of search_similar.
RowQualifies(row, embedding, region, category, min_score) ==
    /\ FilterSet(region) => row.region = region
    /\ FilterSet(category) => row.category = category
    /\ SimilarityScore(row.embedding, embedding) >= min_score

\* PolicyChunk(...) built from a fetched row.
PolicyChunk(row, embedding) ==
    [id |-> row.id, content |-> row.content, region |-> row.region,
     category |-> row.category, policy_name |-> row.policy_name,
     section |-> row.section,
     similarity_score |-> SimilarityScore(row.embedding, embedding)]

\* LIMIT top_k with no ORDER BY: any top_k of the qualifying rows.
OrderByLimit_Unordered(table, Q, embedding, top_k) ==
    LET n == Min(top_k, Cardinality(Q))
    IN {s \in [1..n -> Q] : \A a, b \in 1..n : a < b => s[a] # s[b]}

\* ORDER BY embedding <=> $1 LIMIT top_k over the qualifying rows.  SQL fixes
\* the order of rows only as far as the ORDER BY key does: rows at the same
\* distance come in any order, and any of them may be the ones LIMIT keeps.
OrderByLimit(table, Q, embedding, top_k) ==
    LET n == Min(top_k, Cardinality(Q))
        dist(i) == CosineDistance(table[i].embedding, embedding)
    IN {s \in [1..n -> Q] :
            /\ \A a, b \in 1..n : a < b => s[a] # s[b] /\ dist(s[a]) <= dist(s[b])
            /\ \A j \in Q : (\A a \in 1..n : s[a] # j) =>
                                \A a \in 1..n : dist(s[a]) <= dist(j)}

\* DatabaseManager.search_similar: the lists of chunks the query may return.
SearchSimilar(table, embedding, region, category, top_k, min_score) ==
    LET Q == {i \in 1..Len(table) :
                 RowQualifies(table[i], embedding, region, category, min_score)}
    IN {[k \in 1..Len(s) |-> PolicyChunk(table[s[k]], embedding)] :
            s \in OrderByLimit(table, Q, embedding, top_k)}

ErrorResponse(status) == [status |-> status, chunks |-> <<>>]

\* The rows the query's equality conditions keep: on these the store has to
\* compute embedding <=> $1.
RowsCompared(table, req) ==
    {i \in 1..Len(table) :
        /\ FilterSet(req.region) => table[i].region = req.region
        /\ FilterSet(req.category) => table[i].category = req.category}

\* search_policies: 200 with the chunks found, or 500 when the embedding or
\* the store query raises (one `except Exception` for every cause).  The
\* vector store raises when it is to compare a stored vector with a query
\* vector of another dimension.
SearchPolicies(table, req) ==
    IF index_dim # EmbeddingDim /\ RowsCompared(table, req) # {}
    THEN {ErrorResponse(500)}
    ELSE
    {[status |-> 200, chunks |-> c, total_results |-> Len(c), query |-> req.query,
      filters |-> [region |-> req.region, category |-> req.category]] :
        c \in SearchSimilar(table, EmbedText(req.query), req.region, req.category,
                            req.top_k, req.min_score)}
    \cup {ErrorResponse(500)}

ExclusionPrefixLen == 18
ExclusionSuffixLen == 35
LimitPrefixLen == 23
LimitSuffixLen == 26

\* f"exclusion clause: {query} NOT covered excluded from coverage"
ExclusionQuery(query) ==
    [query EXCEPT !.len = @ + ExclusionPrefixLen + ExclusionSuffixLen,
                  !.rewrite = "exclusion"]

\* f"coverage limit amount: {query} maximum limit sum insured"
LimitQuery(query) ==
    [query EXCEPT !.len = @ + LimitPrefixLen + LimitSuffixLen, !.rewrite = "limit"]

\* search_exclusions / search_limits: request.model_copy(update={"query": ...})
AugmentedRequest(endpoint, req) ==
    CASE endpoint = "/search/exclusions" -> [req EXCEPT !.query = ExclusionQuery(req.query)]
      [] endpoint = "/search/limits"     -> [req EXCEPT !.query = LimitQuery(req.query)]
      [] OTHER                           -> req

Endpoints == {"/search", "/search/exclusions", "/search/limits"}

\* POST endpoint: the request is validated against SearchRequest (422), then
\* handled.
PostSearch(table, endpoint, req) ==
    IF ~SearchRequestValid(req) THEN {ErrorResponse(422)}
    ELSE SearchPolicies(table, AugmentedRequest(endpoint, req))


\* ---------------------------------------------------------- ingestion
MSIG == "MSIG Enhanced HomePlus"
Zurich == "Zurich Business Insurance"

Policies == {MSIG, Zurich}

ChunkInput(content, region, category, policy_name, section) ==
    [content |-> content, region |-> region, category |-> category,
     policy_name |-> policy_name, section |-> section]

\* The chunks an ingest request may carry.
ChunkInputs ==
    {ChunkInput(Text("cover_water", 208), "SG", "Home", MSIG, "Section 1"),
     ChunkInput(Text("cover_aircon", 162), "SG", "Home", MSIG, "Section 1.3"),
     ChunkInput(Text("excl_wear", 116), "SG", "Home", MSIG, "Exclusions"),
     ChunkInput(Text("cover_property", 177), "AU", "Business", Zurich, "Section 2")}

\* One INSERT INTO policy_chunks.
Row(id, chunk, embedding) ==
    [id |-> id, content |-> chunk.content, region |-> chunk.region,
     category |-> chunk.category, policy_name |-> chunk.policy_name,
     section |-> chunk.section, embedding |-> embedding]

\* embed_batch
EmbedBatch(texts) == [i \in 1..Len(texts) |-> EmbedText(texts[i])]

\* DatabaseManager.insert_chunks: each chunk is inserted on its own; an insert
\* that raises (i in failed) is logged and skipped.
RECURSIVE InsertChunks(_, _, _, _, _, _)
InsertChunks(table, nid, chunks, embeddings, failed, i) ==
    IF i > Len(chunks) THEN [table |-> table, next_id |-> nid, inserted |-> 0]
    ELSE IF i \in failed
         THEN InsertChunks(table, nid, chunks, embeddings, failed, i + 1)
         ELSE LET rest == InsertChunks(Append(table, Row(nid, chunks[i], embeddings[i])),
                                       nid + 1, chunks, embeddings, failed, i + 1)
              IN [rest EXCEPT !.inserted = @ + 1]

\* No fault of any kind.
NoFaults == [embed |-> {}, insert |-> {}]

\* The chunks whose text the embedding model may fail on: none, or one of
\* them.  embed_batch encodes the whole batch in one call.
IngestEmbedFaults(chunks) == {{}} \cup {{i} : i \in 1..Len(chunks)}

\* ingest_chunks: embed_batch over the batch, then insert_chunks; an exception
\* of embed_batch leaves the handler as a 500.
Ingest ==
    \E policy_name \in Policies, chunks \in SeqsUpTo(ChunkInputs, MaxBatch) :
      \E embed_failed \in IngestEmbedFaults(chunks), failed \in SUBSET (1..Len(chunks)) :
        /\ next_id + Len(chunks) - 1 <= MaxInserts
        /\ rag_request' = <<[endpoint |-> "/ingest", policy_name |-> policy_name,
                             chunks |-> chunks]>>
        /\ rag_faults' = [embed |-> embed_failed, insert |-> failed]
        /\ IF embed_failed = {}
           THEN LET done == InsertChunks(policy_chunks, next_id, chunks,
                                         EmbedBatch([i \in 1..Len(chunks) |-> chunks[i].content]),
                                         failed, 1)
                IN /\ policy_chunks' = done.table
                   /\ next_id' = done.next_id
                   /\ rag_response' = <<[status |-> 200, success |-> TRUE,
                                         chunks_ingested |-> done.inserted,
                                         policy_name |-> policy_name]>>
           ELSE /\ failed = {}
                /\ rag_response' = <<ErrorResponse(500)>>
                /\ UNCHANGED <<policy_chunks, next_id>>
        /\ UNCHANGED <<index_dim, stats_query, agentVars, routerVars, poolVars>>

\* DELETE ... WHERE policy_name = $1 stopping at the first row it matches.
DeletePolicyRows_FirstOnly(table, policy_name) ==
    LET matching == {i \in 1..Len(table) : table[i].policy_name = policy_name}
        first == IF matching = {} THEN 0
                 ELSE CHOOSE i \in matching : \A j \in matching : i <= j
    IN [k \in 1..(Len(table) - (IF first = 0 THEN 0 ELSE 1)) |->
           IF first = 0 \/ k < first THEN table[k] ELSE table[k + 1]]

\* DatabaseManager.delete_policy
DeletePolicyRows(table, policy_name) ==
    SelectSeq(table, LAMBDA row : row.policy_name # policy_name)

DeletePolicy ==
    \E policy_name \in Policies :
        /\ policy_chunks' = DeletePolicyRows(policy_chunks, policy_name)
        /\ rag_request' = <<[endpoint |-> "delete_policy", policy_name |-> policy_name]>>
        /\ rag_response' = <<[status |-> 200,
                              count |-> Len(policy_chunks) - Len(policy_chunks')]>>
        /\ rag_faults' = NoFaults
        /\ UNCHANGED <<next_id, index_dim, stats_query, agentVars, routerVars, poolVars>>

\* SELECT key, COUNT(*) ... GROUP BY key, as the dict built from the rows.
CountBy(table, key) ==
    [g \in {table[i][key] : i \in 1..Len(table)} |->
        Cardinality({i \in 1..Len(table) : table[i][key] = g})]

\* Statistics grouped by section where the policy name was meant.
GetStats_BySection(table) ==
    [total_chunks |-> Len(table),
     by_region |-> CountBy(table, "region"),
     by_category |-> CountBy(table, "category"),
     by_policy |-> CountBy(table, "section")]

\* DatabaseManager.get_stats
GetStats(table) ==
    [total_chunks |-> Len(table),
     by_region |-> CountBy(table, "region"),
     by_category |-> CountBy(table, "category"),
     by_policy |-> CountBy(table, "policy_name")]

\* GET /stats
Stats ==
    /\ rag_request' = <<[endpoint |-> "/stats"]>>
    /\ \/ rag_response' = <<[status |-> 200, stats |-> GetStats(policy_chunks)]>>
       \/ rag_response' = <<ErrorResponse(500)>>
    /\ rag_faults' = NoFaults
    /\ UNCHANGED <<policy_chunks, next_id, index_dim, stats_query,
                   agentVars, routerVars, poolVars>>

\* No get_stats call has started.
NoStatsQuery ==
    [pc |-> "idle", total_chunks |-> 0, by_region |-> <<>>, by_category |-> <<>>,
     by_policy |-> <<>>]

\* get_stats statement by statement.  The four SELECTs run on one connection
\* outside any transaction, each on the table as it is when it runs; other
\* calls of the service run between two of them.
\* SELECT COUNT(*) FROM policy_chunks
GetStats_Total ==
    /\ stats_query.pc = "idle"
    /\ stats_query' = [stats_query EXCEPT !.pc = "region",
                                          !.total_chunks = Len(policy_chunks)]
    /\ UNCHANGED <<policy_chunks, next_id, rag_request, rag_response, rag_faults,
                   index_dim, agentVars, routerVars, poolVars>>

\* SELECT region, COUNT(*) ... GROUP BY region
GetStats_ByRegion ==
    /\ stats_query.pc = "region"
    /\ stats_query' = [stats_query EXCEPT !.pc = "category",
                                          !.by_region = CountBy(policy_chunks, "region")]
    /\ UNCHANGED <<policy_chunks, next_id, rag_request, rag_response, rag_faults,
                   index_dim, agentVars, routerVars, poolVars>>

\* SELECT category, COUNT(*) ... GROUP BY category
GetStats_ByCategory ==
    /\ stats_query.pc = "category"
    /\ stats_query' = [stats_query EXCEPT !.pc = "policy",
                                          !.by_category = CountBy(policy_chunks, "category")]
    /\ UNCHANGED <<policy_chunks, next_id, rag_request, rag_response, rag_faults,
                   index_dim, agentVars, routerVars, poolVars>>

\* SELECT policy_name, COUNT(*) ... GROUP BY policy_name, and the return.
GetStats_ByPolicy ==
    /\ stats_query.pc = "policy"
    /\ stats_query' = [stats_query EXCEPT !.pc = "returned",
                                          !.by_policy = CountBy(policy_chunks, "policy_name")]
    /\ UNCHANGED <<policy_chunks, next_id, rag_request, rag_response, rag_faults,
                   index_dim, agentVars, routerVars, poolVars>>

\* The search requests of SpecSearch.
\* Queries of an accepted length, of the longest accepted length, and too
\* long.
RagQueries == {Text("claim_a", 10), Text("claim_e", 1000), Text("claim_b", 5000)}

RagSearchRequests ==
    [query : RagQueries, region : {"None", "", "SG", "AU"}, category : {"None", "Home"},
     top_k : {1, 2}, min_score : {0, 50, 100}]

\* POST /search, /search/exclusions, /search/limits: the request that came in
\* is answered.
Search ==
    /\ rag_request # <<>> /\ rag_response = <<>>
    /\ rag_request[1].endpoint \in Endpoints
    /\ \E resp \in PostSearch(policy_chunks, rag_request[1].endpoint, rag_request[1].req) :
          rag_response' = <<resp>>
    /\ UNCHANGED <<rag_request, policy_chunks, next_id, rag_faults, index_dim,
                   stats_query, agentVars, routerVars, poolVars>>

\* --------------------------------------------------- agent: RAG tools
MockChunk(content, policy_name, section, similarity_score) ==
    [content |-> content, policy_name |-> policy_name, section |-> section,
     similarity_score |-> similarity_score]

\* RAGTools._mock_clauses
MockClauses(query, region, category) ==
    IF region = "SG" /\ category = "Home"
    THEN <<MockChunk(Text("mock_sg_section_1", 208), MSIG, "Section 1", 85),
           MockChunk(Text("mock_sg_section_1_3", 162), MSIG, "Section 1.3", 82)>>
    ELSE IF region = "AU" /\ category = "Business"
    THEN <<MockChunk(Text("mock_au_section_2", 177), Zurich, "Section 2", 80),
           MockChunk(Text("mock_au_section_2_4", 139), Zurich, "Section 2.4", 78)>>
    ELSE <<>>

\* RAGTools._mock_exclusions
MockExclusions(region, category) ==
    IF region = "SG" /\ category = "Home"
    THEN <<MockChunk(Text("mock_sg_exclusion", 116), MSIG, "Exclusions", 70)>>
    ELSE IF region = "AU" /\ category = "Business"
    THEN <<MockChunk(Text("mock_au_exclusion", 147), Zurich, "General Exclusions", 72)>>
    ELSE <<>>

\* RAGTools._mock_limits
MockLimits(region, category) ==
    IF region = "SG" /\ category = "Home"
    THEN <<MockChunk(Text("mock_sg_limit", 124), MSIG, "Limits", 75)>>
    ELSE IF region = "AU" /\ category = "Business"
    THEN <<MockChunk(Text("mock_au_limit", 146), Zurich, "Limits of Liability", 73)>>
    ELSE <<>>

\* The tool body without its `except`: the exception reaches the caller.
ToolCall_NoCatch(table, endpoint, req, mock) ==
    {[outcome |-> "raised", chunks |-> <<>>]}
    \cup {IF resp.status = 200
          THEN [outcome |-> "ok", chunks |-> resp.chunks]
          ELSE [outcome |-> "http_error", chunks |-> <<>>] :
             resp \in PostSearch(table, endpoint, req)}

\* The body shared by RAGTools.search_clauses / search_exclusions /
\* search_limits: POST the request; status 200 gives the response's chunks,
\* another status gives []; an exception (the service cannot be reached, a
\* timeout) is caught and gives the mock data.  The tool itself never raises.
ToolCall(table, endpoint, req, mock) ==
    {[outcome |-> "exception", chunks |-> mock]}
    \cup {IF resp.status = 200
          THEN [outcome |-> "ok", chunks |-> resp.chunks]
          ELSE [outcome |-> "http_error", chunks |-> <<>>] :
             resp \in PostSearch(table, endpoint, req)}

ToolRequest(query, region, category, top_k, min_score) ==
    [query |-> query, region |-> region, category |-> category,
     top_k |-> top_k, min_score |-> min_score]

\* RAGTools.search_clauses
ToolSearchClauses(table, query, region, category) ==
    ToolCall(table, "/search", ToolRequest(query, region, category, 5, 40),
             MockClauses(query, region, category))

\* RAGTools.search_exclusions
ToolSearchExclusions(table, query, region, category) ==
    ToolCall(table, "/search/exclusions", ToolRequest(query, region, category, 5, 30),
             MockExclusions(region, category))

\* RAGTools.search_limits
ToolSearchLimits(table, query, region, category) ==
    ToolCall(table, "/search/limits", ToolRequest(query, region, category, 3, 30),
             MockLimits(region, category))

\* ------------------------------------------------------- AgentState
\* AgentState.__init__
AgentState(claim_text, region, category) ==
    [claim_text |-> claim_text, region |-> region, category |-> category,
     reasoning_trace |-> <<>>, evidence |-> <<>>, exclusions_found |-> <<>>,
     limits_found |-> <<>>, decision |-> "None", summary |-> <<>>,
     confidence |-> 0, step_count |-> 0]

ReasoningStep(step_number, step_type, tool_used) ==
    [step_number |-> step_number, step_type |-> step_type, tool_used |-> tool_used]

\* add_step numbering the step before the counter is incremented.
AddStep_Stale(state, step_type, tool_used) ==
    [state EXCEPT !.step_count = @ + 1,
                  !.reasoning_trace =
                      Append(@, ReasoningStep(state.step_count, step_type, tool_used))]

\* add_step counting on one counter kept by the agent for all its runs.
AddStep_SharedCounter(state, step_type, tool_used) ==
    LET counts == {state.step_count} \cup {runs[r].state.step_count : r \in DOMAIN runs}
        step_count == CHOOSE n \in counts : \A m \in counts : m <= n
    IN [state EXCEPT !.step_count = step_count + 1,
                     !.reasoning_trace =
                         Append(@, ReasoningStep(step_count + 1, step_type, tool_used))]

\* AgentState.add_step
AddStep(state, step_type, tool_used) ==
    [state EXCEPT !.step_count = @ + 1,
                  !.reasoning_trace =
                      Append(@, ReasoningStep(state.step_count + 1, step_type, tool_used))]

LastStep(state) == state.reasoning_trace[Len(state.reasoning_trace)]

\* PolicyEvidence(content=..., policy_name=..., section=..., relevance_score=...)
PolicyEvidence(clause) ==
    [content |-> clause.content, policy_name |-> clause.policy_name,
     section |-> clause.section, relevance_score |-> clause.similarity_score]

PreviewLen == 200

\* The contents in full.
Previews_Whole(hits) == [i \in 1..Len(hits) |-> hits[i].content]

\* [e["content"][:200] for e in hits]
Previews(hits) == [i \in 1..Len(hits) |-> Prefix(hits[i].content, PreviewLen)]


\* ------------------------------------------- agent: the Reasoning Oracle
\* A response is its lines after content.strip().split("\n").  A line is its
\* prefix (tag) and the rest of it, stripped (val); tag "" is a line with none
\* of the three prefixes.
Line(tag, val) == [tag |-> tag, val |-> val]

OracleLines ==
    {Line("DECISION:", v) : v \in {"COVERED", "MAYBE"}}
    \cup {Line("CONFIDENCE:", v) : v \in {"0.9", "1.5", "-0.2", "high"}}
    \cup {Line("SUMMARY:", "Covered under Section 1."), Line("", "I think it is covered.")}

OracleResponses == SeqsUpTo(OracleLines, MaxLines)

\* float(s): the number in hundredths, or nothing on ValueError.
ParseFloat(s) ==
    CASE s = "0.9"  -> <<90>>
      [] s = "1.5"  -> <<150>>
      [] s = "-0.2" -> <<0 - 20>>
      [] OTHER      -> <<>>

\* decision = "NEEDS_REVIEW"; confidence = 0.5; summary = response.content
DefaultConfidence == 50

\* The defaults with confidence 0.0 and an empty summary.
InitialParse_Zero(content) ==
    [decision |-> "NEEDS_REVIEW", confidence |-> 0, summary |-> <<>>]

InitialParse(content) ==
    [decision |-> "NEEDS_REVIEW", confidence |-> DefaultConfidence, summary |-> content]

\* One turn of `for line in lines`.
ParseLine(acc, line) ==
    IF line.tag = "DECISION:" THEN [acc EXCEPT !.decision = line.val]
    ELSE IF line.tag = "CONFIDENCE:"
         THEN IF ParseFloat(line.val) # <<>>
              THEN [acc EXCEPT !.confidence = ParseFloat(line.val)[1]]
              ELSE acc
    ELSE IF line.tag = "SUMMARY:" THEN [acc EXCEPT !.summary = <<Line("", line.val)>>]
    ELSE acc

RECURSIVE ParseLines(_, _, _)
ParseLines(acc, lines, i) ==
    IF i > Len(lines) THEN acc ELSE ParseLines(ParseLine(acc, lines[i]), lines, i + 1)

\* _decide with no LLM: the fixed result.
MockConfidence == 60

\* A fallback whose confidence grows with the claim text.
MockDecision_ByLength(state) ==
    [decision |-> "NEEDS_REVIEW",
     confidence |-> IF state.claim_text.len > 100 THEN MockConfidence + 10
                    ELSE MockConfidence,
     summary |-> <<[tag |-> "", val |-> "requires manual review",
                    category |-> state.category, region |-> state.region,
                    regarding |-> Prefix(state.claim_text, 100)]>>]

MockDecision(state) ==
    [decision |-> "NEEDS_REVIEW", confidence |-> MockConfidence,
     summary |-> <<[tag |-> "", val |-> "requires manual review",
                    category |-> state.category, region |-> state.region,
                    regarding |-> Prefix(state.claim_text, 100)]>>]

\* PolicyReasoningAgent._decide, given the oracle's response.
Decide(llm, state, content) ==
    IF ~llm THEN MockDecision(state)
    ELSE ParseLines(InitialParse(content), content, 1)

\* What `await self.llm.ainvoke(...)` may do in _decide: answer, or raise.
\* With no LLM nothing is awaited.
DecideOutcomes(llm) ==
    IF llm THEN {[raised |-> FALSE, content |-> c] : c \in OracleResponses}
                \cup {[raised |-> TRUE, content |-> <<>>]}
    ELSE {[raised |-> FALSE, content |-> <<>>]}

\* The same in _think; the thought's text is not modelled.
ThinkOutcomes(llm) == IF llm THEN {[raised |-> FALSE], [raised |-> TRUE]}
                             ELSE {[raised |-> FALSE]}

\* ------------------------------------ PolicyReasoningAgent.analyze
\* The code between two awaits, as a change of the AgentState.

\* Step 1 and the ACT of step 2.
AnalyzeThink(state) ==
    AddStep(AddStep(state, "THINK", "None"), "ACT", "search_policy_clauses")

\* OBSERVE of step 2, the evidence, and the ACT of step 3.
AnalyzeObserveClauses(state, clauses) ==
    LET observed == AddStep(state, "OBSERVE", "None")
        added == [observed EXCEPT !.evidence =
                     @ \o [i \in 1..Len(clauses) |-> PolicyEvidence(clauses[i])]]
    IN AddStep(added, "ACT", "check_exclusions")

\* OBSERVE recorded only when exclusions were found.
AnalyzeObserveExclusions_WhenFound(state, exclusions) ==
    LET observed ==
            IF exclusions # <<>>
            THEN AddStep([state EXCEPT !.exclusions_found = Previews(exclusions)],
                         "OBSERVE", "None")
            ELSE state
    IN AddStep(observed, "ACT", "check_limits")

\* OBSERVE of step 3 and the ACT of step 4.
AnalyzeObserveExclusions(state, exclusions) ==
    LET observed ==
            IF exclusions # <<>>
            THEN AddStep([state EXCEPT !.exclusions_found = Previews(exclusions)],
                         "OBSERVE", "None")
            ELSE AddStep(state, "OBSERVE", "None")
    IN AddStep(observed, "ACT", "check_limits")

\* OBSERVE of step 4.
AnalyzeObserveLimits(state, limits) ==
    IF limits # <<>>
    THEN AddStep([state EXCEPT !.limits_found = Previews(limits)], "OBSERVE", "None")
    ELSE AddStep(state, "OBSERVE", "None")

\* Step 5, after _decide returned.
AnalyzeDecide(state, decision_result) ==
    [AddStep(state, "DECIDE", "None") EXCEPT
        !.decision = decision_result.decision,
        !.summary = decision_result.summary,
        !.confidence = decision_result.confidence]

\* AnalyzeResponse(decision: DecisionEnum, confidence: ge=0.0, le=1.0, ...)
AnalyzeResponseValid(state) ==
    /\ state.decision \in DecisionEnum
    /\ state.confidence >= 0 /\ state.confidence <= 100

AnalyzeResponse(state) ==
    [decision |-> state.decision, reasoning_trace |-> state.reasoning_trace,
     evidence |-> state.evidence, summary |-> state.summary,
     exclusions_found |-> state.exclusions_found,
     limits_found |-> state.limits_found, confidence |-> state.confidence]


\* ------------------------------------------------ agent service: runs
RunIds == {"r1"}

\* Claim texts of the shortest and the longest length accepted, and of the
\* lengths next to them.
ClaimTexts == {Text("claim_a", 10), Text("claim_b", 5000),
               Text("claim_c", 9), Text("claim_d", 5001)}

NoState == AgentState(Text("", 0), "None", "None")

\* A request not yet received.
IdleRun ==
    [pc |-> "idle", mode |-> "none",
     request |-> <<>>,            \* the request body received (0 or 1 element)
     state |-> NoState,
     rag_outcome |-> [clauses |-> "none", exclusions |-> "none", limits |-> "none"],
     oracle_calls |-> <<>>,       \* the oracle calls issued: which, after how many steps
     oracle_content |-> <<>>,     \* the response _decide got (0 or 1 element)
     decision_result |-> <<>>,    \* what _decide returned (0 or 1 element)
     frames |-> <<>>,             \* the frames generate_steps has yielded
     http_response |-> <<>>,      \* the response of POST /analyze (0 or 1 element)
     error |-> "none"]            \* what raised, if anything did

OracleCall(name, state) == [call |-> name, steps_recorded |-> state.step_count]

\* An exception leaves analyze; analyze_claim turns it into a 500.
AnalyzeRaised(run, cause) ==
    [run EXCEPT !.pc = "done", !.error = cause,
                !.http_response = <<[status |-> 500]>>]

\* POST /analyze: the request is validated, then analyze starts and awaits
\* _think.
AnalyzeClaim(r) ==
    /\ runs[r].pc = "idle"
    /\ \E claim_text \in ClaimTexts, region \in Regions, category \in Categories :
        /\ runs' = [runs EXCEPT ![r] =
              IF ~AnalyzeRequestValid(claim_text)
              THEN [@ EXCEPT !.pc = "done", !.mode = "sync",
                             !.request = <<AnalyzeRequest(claim_text, region, category)>>,
                             !.http_response = <<[status |-> 422]>>]
              ELSE [@ EXCEPT !.pc = "think", !.mode = "sync",
                             !.request = <<AnalyzeRequest(claim_text, region, category)>>,
                             !.state = AgentState(claim_text, region, category),
                             !.oracle_calls = <<OracleCall("think", NoState)>>]]
        /\ UNCHANGED <<agent_llm, ragVars, routerVars, poolVars>>

Analyze_Think(r) ==
    /\ runs[r].pc = "think" /\ runs[r].mode = "sync"
    /\ \E out \in ThinkOutcomes(agent_llm) :
        /\ runs' = [runs EXCEPT ![r] =
              IF out.raised THEN AnalyzeRaised(@, "oracle")
              ELSE [@ EXCEPT !.pc = "search_clauses", !.state = AnalyzeThink(@)]]
        /\ UNCHANGED <<agent_llm, ragVars, routerVars, poolVars>>

Analyze_SearchClauses(r) ==
    /\ runs[r].pc = "search_clauses" /\ runs[r].mode = "sync"
    /\ \E out \in ToolSearchClauses(policy_chunks, runs[r].state.claim_text,
                                    runs[r].state.region, runs[r].state.category) :
        /\ runs' = [runs EXCEPT ![r] =
              IF out.outcome = "raised" THEN AnalyzeRaised(@, "retrieval")
              ELSE [@ EXCEPT !.pc = "search_exclusions",
                             !.rag_outcome.clauses = out.outcome,
                             !.state = AnalyzeObserveClauses(@, out.chunks)]]
        /\ UNCHANGED <<agent_llm, ragVars, routerVars, poolVars>>

Analyze_SearchExclusions(r) ==
    /\ runs[r].pc = "search_exclusions" /\ runs[r].mode = "sync"
    /\ \E out \in ToolSearchExclusions(policy_chunks, runs[r].state.claim_text,
                                       runs[r].state.region, runs[r].state.category) :
        /\ runs' = [runs EXCEPT ![r] =
              IF out.outcome = "raised" THEN AnalyzeRaised(@, "retrieval")
              ELSE [@ EXCEPT !.pc = "search_limits",
                             !.rag_outcome.exclusions = out.outcome,
                             !.state = AnalyzeObserveExclusions(@, out.chunks)]]
        /\ UNCHANGED <<agent_llm, ragVars, routerVars, poolVars>>

\* The limits come back, OBSERVE is recorded and _decide is awaited.
Analyze_SearchLimits(r) ==
    /\ runs[r].pc = "search_limits" /\ runs[r].mode = "sync"
    /\ \E out \in ToolSearchLimits(policy_chunks, runs[r].state.claim_text,
                                   runs[r].state.region, runs[r].state.category) :
        /\ runs' = [runs EXCEPT ![r] =
              IF out.outcome = "raised" THEN AnalyzeRaised(@, "retrieval")
              ELSE LET state == AnalyzeObserveLimits(@.state, out.chunks)
                   IN [@ EXCEPT !.pc = "decide",
                                !.rag_outcome.limits = out.outcome,
                                !.state = state,
                                !.oracle_calls = Append(@, OracleCall("decide", state))]]
        /\ UNCHANGED <<agent_llm, ragVars, routerVars, poolVars>>

\* _decide returns (or raises); DECIDE is recorded and analyze returns.
Analyze_Decide(r) ==
    /\ runs[r].pc = "decide" /\ runs[r].mode = "sync"
    /\ \E out \in DecideOutcomes(agent_llm) :
        /\ runs' = [runs EXCEPT ![r] =
              IF out.raised THEN AnalyzeRaised(@, "oracle")
              ELSE LET result == Decide(agent_llm, @.state, out.content)
                   IN [@ EXCEPT !.pc = "returned",
                                !.oracle_content = <<out.content>>,
                                !.decision_result = <<result>>,
                                !.state = AnalyzeDecide(@, result)]]
        /\ UNCHANGED <<agent_llm, ragVars, routerVars, poolVars>>

\* analyze_claim builds the AnalyzeResponse; a value the schema rejects raises
\* inside the try, and the caller gets a 500.
AnalyzeClaim_Respond(r) ==
    /\ runs[r].pc = "returned"
    /\ runs' = [runs EXCEPT ![r] =
          IF AnalyzeResponseValid(@.state)
          THEN [@ EXCEPT !.pc = "done",
                         !.http_response = <<[status |-> 200,
                                              body |-> AnalyzeResponse(runs[r].state)]>>]
          ELSE AnalyzeRaised(@, "response_validation")]
    /\ UNCHANGED <<agent_llm, ragVars, routerVars, poolVars>>


\* ------------------------------- PolicyReasoningAgent.analyze_stream
\* generate_steps wraps each event analyze_stream yields into one frame, and
\* ends the stream with the "[DONE]" frame.
DataFrame(event) == [done |-> FALSE, event |-> <<event>>]

DoneFrame == [done |-> TRUE, event |-> <<>>]

StartEvent == [type |-> "start"]

\* {"type": "step", "step": step.model_dump()}
StepEvent(step) == [type |-> "step", step |-> step]

\* {"type": "complete", "decision": ..., "summary": ..., "confidence": ...}
CompleteEvent(decision_result) ==
    [type |-> "complete", decision |-> decision_result.decision,
     summary |-> decision_result.summary, confidence |-> decision_result.confidence]

\* state.add_step(...) followed by the yield of that step.
StreamStep(run, step_type, tool_used, pc) ==
    LET state == AddStep(run.state, step_type, tool_used)
    IN [run EXCEPT !.pc = pc, !.state = state,
                   !.frames = Append(@, DataFrame(StepEvent(LastStep(state))))]

\* An exception leaves the generator: the stream ends there.
StreamRaised(run, cause) == [run EXCEPT !.pc = "failed", !.error = cause]

\* POST /analyze/stream: the request is validated; the generator yields the
\* start event and awaits _think.
AnalyzeClaimStream(r) ==
    /\ runs[r].pc = "idle"
    /\ \E claim_text \in ClaimTexts, region \in Regions, category \in Categories :
        /\ runs' = [runs EXCEPT ![r] =
              IF ~AnalyzeRequestValid(claim_text)
              THEN [@ EXCEPT !.pc = "done", !.mode = "stream",
                             !.request = <<AnalyzeRequest(claim_text, region, category)>>,
                             !.http_response = <<[status |-> 422]>>]
              ELSE [@ EXCEPT !.pc = "think", !.mode = "stream",
                             !.request = <<AnalyzeRequest(claim_text, region, category)>>,
                             !.state = AgentState(claim_text, region, category),
                             !.frames = <<DataFrame(StartEvent)>>,
                             !.oracle_calls = <<OracleCall("think", NoState)>>]]
        /\ UNCHANGED <<agent_llm, ragVars, routerVars, poolVars>>

Stream_Think(r) ==
    /\ runs[r].pc = "think" /\ runs[r].mode = "stream"
    /\ \E out \in ThinkOutcomes(agent_llm) :
        /\ runs' = [runs EXCEPT ![r] =
              IF out.raised THEN StreamRaised(@, "oracle")
              ELSE StreamStep(@, "THINK", "None", "act_clauses")]
        /\ UNCHANGED <<agent_llm, ragVars, routerVars, poolVars>>

Stream_ActClauses(r) ==
    /\ runs[r].pc = "act_clauses"
    /\ runs' = [runs EXCEPT ![r] =
                   StreamStep(@, "ACT", "search_policy_clauses", "search_clauses")]
    /\ UNCHANGED <<agent_llm, ragVars, routerVars, poolVars>>

Stream_SearchClauses(r) ==
    /\ runs[r].pc = "search_clauses" /\ runs[r].mode = "stream"
    /\ \E out \in ToolSearchClauses(policy_chunks, runs[r].state.claim_text,
                                    runs[r].state.region, runs[r].state.category) :
        /\ runs' = [runs EXCEPT ![r] =
              IF out.outcome = "raised" THEN StreamRaised(@, "retrieval")
              ELSE StreamStep([@ EXCEPT !.rag_outcome.clauses = out.outcome],
                              "OBSERVE", "None", "act_exclusions")]
        /\ UNCHANGED <<agent_llm, ragVars, routerVars, poolVars>>

Stream_ActExclusions(r) ==
    /\ runs[r].pc = "act_exclusions"
    /\ runs' = [runs EXCEPT ![r] =
                   StreamStep(@, "ACT", "check_exclusions", "search_exclusions")]
    /\ UNCHANGED <<agent_llm, ragVars, routerVars, poolVars>>

\* The exclusions come back, OBSERVE is yielded and _decide is awaited.
Stream_SearchExclusions(r) ==
    /\ runs[r].pc = "search_exclusions" /\ runs[r].mode = "stream"
    /\ \E out \in ToolSearchExclusions(policy_chunks, runs[r].state.claim_text,
                                       runs[r].state.region, runs[r].state.category) :
        /\ runs' = [runs EXCEPT ![r] =
              IF out.outcome = "raised" THEN StreamRaised(@, "retrieval")
              ELSE LET next == StreamStep([@ EXCEPT !.rag_outcome.exclusions = out.outcome],
                                          "OBSERVE", "None", "decide")
                   IN [next EXCEPT !.oracle_calls =
                                       Append(@, OracleCall("decide", next.state))]]
        /\ UNCHANGED <<agent_llm, ragVars, routerVars, poolVars>>

\* _decide returns and the generator goes to its final yield without the
\* DECIDE step.
Stream_Decide_NoStep(r) ==
    /\ runs[r].pc = "decide" /\ runs[r].mode = "stream"
    /\ \E out \in DecideOutcomes(agent_llm) :
        /\ runs' = [runs EXCEPT ![r] =
              IF out.raised THEN StreamRaised(@, "oracle")
              ELSE [@ EXCEPT
                       !.pc = "complete",
                       !.oracle_content = <<out.content>>,
                       !.decision_result = <<Decide(agent_llm, runs[r].state, out.content)>>]]
        /\ UNCHANGED <<agent_llm, ragVars, routerVars, poolVars>>

Stream_Decide(r) ==
    /\ runs[r].pc = "decide" /\ runs[r].mode = "stream"
    /\ \E out \in DecideOutcomes(agent_llm) :
        /\ runs' = [runs EXCEPT ![r] =
              IF out.raised THEN StreamRaised(@, "oracle")
              ELSE [StreamStep(@, "DECIDE", "None", "complete") EXCEPT
                       !.oracle_content = <<out.content>>,
                       !.decision_result = <<Decide(agent_llm, runs[r].state, out.content)>>]]
        /\ UNCHANGED <<agent_llm, ragVars, routerVars, poolVars>>

\* The final yield of analyze_stream.
Stream_Complete(r) ==
    /\ runs[r].pc = "complete"
    /\ runs' = [runs EXCEPT ![r] =
          [@ EXCEPT !.pc = "finish",
                    !.frames = Append(@, DataFrame(CompleteEvent(runs[r].decision_result[1])))]]
    /\ UNCHANGED <<agent_llm, ragVars, routerVars, poolVars>>

\* yield "data: [DONE]\n\n"
Stream_Done(r) ==
    /\ runs[r].pc = "finish"
    /\ runs' = [runs EXCEPT ![r] = [@ EXCEPT !.pc = "done", !.frames = Append(@, DoneFrame)]]
    /\ UNCHANGED <<agent_llm, ragVars, routerVars, poolVars>>

StreamLive == {"think", "act_clauses", "search_clauses", "act_exclusions",
               "search_exclusions", "decide", "complete", "finish"}

\* The consumer goes away: the generator is closed where it is suspended and
\* yields nothing more.
Stream_Cancel(r) ==
    /\ runs[r].mode = "stream" /\ runs[r].pc \in StreamLive
    /\ runs' = [runs EXCEPT ![r] = [@ EXCEPT !.pc = "cancelled"]]
    /\ UNCHANGED <<agent_llm, ragVars, routerVars, poolVars>>

\* ------------------------------------------- the store's connection pool
\* asyncpg.create_pool(max_size=...)
PoolMaxSize == 10

\* The operations of DatabaseManager that acquire a connection.
PoolOps == {"search_similar", "insert_chunks", "get_stats", "delete_policy"}

\* async with self.pool.acquire(): the caller gets a free connection, or
\* waits in the pool's queue; acquire is given no timeout.
PoolAcquire ==
    /\ \E op \in PoolOps :
          IF pool_in_use < PoolMaxSize
          THEN /\ pool_in_use' = pool_in_use + 1
               /\ pool_waiters' = pool_waiters
          ELSE /\ Len(pool_waiters) < MaxWaiters
               /\ pool_in_use' = pool_in_use
               /\ pool_waiters' = Append(pool_waiters, [op |-> op, waited |-> 0])
    /\ UNCHANGED <<agentVars, ragVars, routerVars>>

\* The end of an `async with` block: the connection goes to the oldest
\* waiter, or back to the pool.
PoolRelease ==
    /\ pool_in_use > 0
    /\ IF pool_waiters # <<>>
       THEN /\ pool_waiters' = Tail(pool_waiters)
            /\ pool_in_use' = pool_in_use
       ELSE /\ pool_in_use' = pool_in_use - 1
            /\ pool_waiters' = pool_waiters
    /\ UNCHANGED <<agentVars, ragVars, routerVars>>

\* A period of command_timeout seconds, the one timeout the pool is
\* configured with, passes for every waiter.  Nothing takes a waiter out of
\* the queue but a release.
PoolTick ==
    /\ pool_waiters # <<>>
    /\ \A i \in 1..Len(pool_waiters) : pool_waiters[i].waited < MaxPeriods
    /\ pool_waiters' = [i \in 1..Len(pool_waiters) |->
                           [pool_waiters[i] EXCEPT !.waited = @ + 1]]
    /\ UNCHANGED <<pool_in_use, agentVars, ragVars, routerVars>>

\* ------------------------------------------------------ router service
ClassifyTextMinLen == 10
ClassifyTextMaxLen == 5000

\* A claim text of the router: its characters, followed by `pad` full stops.
\* No keyword holds a full stop, so every keyword match lies within chars.
TextLen(text) == Len(text.chars) + text.pad

\* ClassifyRequest.claim_text: min_length/max_length
ClassifyRequestValid_Exclusive(req) ==
    /\ TextLen(req.claim_text) > ClassifyTextMinLen
    /\ TextLen(req.claim_text) < ClassifyTextMaxLen

ClassifyRequestValid(req) ==
    /\ TextLen(req.claim_text) >= ClassifyTextMinLen
    /\ TextLen(req.claim_text) <= ClassifyTextMaxLen

\* RegionalClassifier.REGION_KEYWORDS, the groups of a region in their order
\* (locations, insurers, terms).
REGION_KEYWORDS ==
    [SG |-> <<<<"s", "i", "n", "g", "a", "p", "o", "r", "e">>,
              <<"b", "e", "d", "o", "k">>,
              <<"t", "a", "m", "p", "i", "n", "e", "s">>,
              <<"j", "u", "r", "o", "n", "g">>,
              <<"w", "o", "o", "d", "l", "a", "n", "d", "s">>,
              <<"a", "n", "g", " ", "m", "o", " ", "k", "i", "o">>,
              <<"t", "o", "a", " ", "p", "a", "y", "o", "h">>,
              <<"c", "l", "e", "m", "e", "n", "t", "i">>,
              <<"o", "r", "c", "h", "a", "r", "d">>,
              <<"p", "a", "s", "i", "r", " ", "r", "i", "s">>,
              <<"p", "u", "n", "g", "g", "o", "l">>,
              <<"s", "e", "n", "g", "k", "a", "n", "g">>,
              <<"y", "i", "s", "h", "u", "n">>,
              <<"h", "o", "u", "g", "a", "n", "g">>,
              <<"b", "i", "s", "h", "a", "n">>,
              <<"b", "u", "k", "i", "t">>,
              <<"m", "a", "r", "i", "n", "e", " ", "p", "a", "r", "a", "d", "e">>,
              <<"g", "e", "y", "l", "a", "n", "g">>,
              <<"k", "a", "l", "l", "a", "n", "g">>,
              <<"s", "e", "r", "a", "n", "g", "o", "o", "n">>,
              <<"c", "h", "a", "n", "g", "i">>,
              <<"h", "d", "b">>,
              <<"c", "o", "n", "d", "o">>,
              <<"f", "l", "a", "t">>,
              <<"m", "s", "i", "g">>,
              <<"n", "t", "u", "c">>,
              <<"a", "i", "a", " ", "s", "i", "n", "g", "a", "p", "o", "r", "e">>,
              <<"g", "r", "e", "a", "t", " ", "e", "a", "s", "t", "e", "r", "n">>,
              <<"s", "g", "d">>,
              <<"s", "$">>,
              <<"c", "p", "f">>,
              <<"m", "e", "d", "i", "s", "h", "i", "e", "l", "d">>,
              <<"e", "l", "d", "e", "r", "s", "h", "i", "e", "l", "d">>>>,
     AU |-> <<<<"a", "u", "s", "t", "r", "a", "l", "i", "a">>,
              <<"s", "y", "d", "n", "e", "y">>,
              <<"m", "e", "l", "b", "o", "u", "r", "n", "e">>,
              <<"b", "r", "i", "s", "b", "a", "n", "e">>,
              <<"p", "e", "r", "t", "h">>,
              <<"a", "d", "e", "l", "a", "i", "d", "e">>,
              <<"c", "a", "n", "b", "e", "r", "r", "a">>,
              <<"h", "o", "b", "a", "r", "t">>,
              <<"d", "a", "r", "w", "i", "n">>,
              <<"g", "o", "l", "d", " ", "c", "o", "a", "s", "t">>,
              <<"n", "e", "w", "c", "a", "s", "t", "l", "e">>,
              <<"w", "o", "l", "l", "o", "n", "g", "o", "n", "g">>,
              <<"g", "e", "e", "l", "o", "n", "g">>,
              <<"c", "a", "i", "r", "n", "s">>,
              <<"t", "o", "w", "n", "s", "v", "i", "l", "l", "e">>,
              <<"n", "s", "w">>,
              <<"v", "i", "c">>,
              <<"q", "l", "d">>,
              <<"w", "a">>,
              <<"s", "a">>,
              <<"t", "a", "s">>,
              <<"n", "t">>,
              <<"a", "c", "t">>,
              <<"w", "a", "r", "e", "h", "o", "u", "s", "e">>,
              <<"f", "a", "c", "t", "o", "r", "y">>,
              <<"i", "n", "d", "u", "s", "t", "r", "i", "a", "l">>,
              <<"z", "u", "r", "i", "c", "h", " ", "a", "u", "s", "t", "r", "a", "l", "i", "a">>,
              <<"a", "l", "l", "i", "a", "n", "z", " ", "a", "u", "s", "t", "r", "a", "l", "i", "a">>,
              <<"q", "b", "e">>,
              <<"s", "u", "n", "c", "o", "r", "p">>,
              <<"a", "u", "d">>,
              <<"a", "$">>,
              <<"a", "b", "n">>,
              <<"g", "s", "t", " ", "a", "u", "s", "t", "r", "a", "l", "i", "a">>>>]

\* RegionalClassifier.CATEGORY_KEYWORDS
CATEGORY_KEYWORDS ==
    [Home |-> <<<<"h", "o", "m", "e">>,
                <<"h", "o", "u", "s", "e">>,
                <<"f", "l", "a", "t">>,
                <<"a", "p", "a", "r", "t", "m", "e", "n", "t">>,
                <<"c", "o", "n", "d", "o">>,
                <<"h", "d", "b">>,
                <<"r", "e", "s", "i", "d", "e", "n", "t", "i", "a", "l">>,
                <<"d", "w", "e", "l", "l", "i", "n", "g">>,
                <<"w", "a", "t", "e", "r", " ", "l", "e", "a", "k">>,
                <<"p", "i", "p", "e">>,
                <<"a", "i", "r", "-", "c", "o", "n">>,
                <<"a", "i", "r", "c", "o", "n">>,
                <<"a", "i", "r", " ", "c", "o", "n", "d", "i", "t", "i", "o", "n", "i", "n", "g">>,
                <<"f", "l", "o", "o", "d">>,
                <<"f", "i", "r", "e", " ", "d", "a", "m", "a", "g", "e", " ", "h", "o", "m", "e">>,
                <<"b", "u", "r", "g", "l", "a", "r", "y", " ", "h", "o", "m", "e">>,
                <<"p", "e", "r", "s", "o", "n", "a", "l", " ", "p", "r", "o", "p", "e", "r", "t", "y">>,
                <<"f", "u", "r", "n", "i", "t", "u", "r", "e">>,
                <<"a", "p", "p", "l", "i", "a", "n", "c", "e">>,
                <<"r", "e", "n", "o", "v", "a", "t", "i", "o", "n">>,
                <<"t", "e", "n", "a", "n", "t">>,
                <<"l", "a", "n", "d", "l", "o", "r", "d">>,
                <<"d", "o", "m", "e", "s", "t", "i", "c">>>>,
     Business |-> <<<<"b", "u", "s", "i", "n", "e", "s", "s">>,
                    <<"c", "o", "m", "m", "e", "r", "c", "i", "a", "l">>,
                    <<"w", "a", "r", "e", "h", "o", "u", "s", "e">>,
                    <<"f", "a", "c", "t", "o", "r", "y">>,
                    <<"o", "f", "f", "i", "c", "e">>,
                    <<"m", "a", "c", "h", "i", "n", "e", "r", "y">>,
                    <<"e", "q", "u", "i", "p", "m", "e", "n", "t">>,
                    <<"i", "n", "v", "e", "n", "t", "o", "r", "y">>,
                    <<"s", "t", "o", "c", "k">>,
                    <<"l", "i", "a", "b", "i", "l", "i", "t", "y">>,
                    <<"e", "m", "p", "l", "o", "y", "e", "e">>,
                    <<"w", "o", "r", "k", "e", "r", "s">>,
                    <<"i", "n", "d", "u", "s", "t", "r", "i", "a", "l">>,
                    <<"m", "a", "n", "u", "f", "a", "c", "t", "u", "r", "i", "n", "g">>,
                    <<"r", "e", "t", "a", "i", "l">>,
                    <<"s", "h", "o", "p">>,
                    <<"p", "r", "e", "m", "i", "s", "e", "s">>,
                    <<"c", "o", "m", "m", "e", "r", "c", "i", "a", "l", " ", "p", "r", "o", "p", "e", "r", "t", "y">>,
                    <<"b", "u", "s", "i", "n", "e", "s", "s", " ", "i", "n", "t", "e", "r", "r", "u", "p", "t", "i", "o", "n">>,
                    <<"p", "r", "o", "f", "e", "s", "s", "i", "o", "n", "a", "l", " ", "i", "n", "d", "e", "m", "n", "i", "t", "y">>>>]

\* str.lower() on the letters of a claim text.
LowerCase ==
    [A |-> "a", B |-> "b", C |-> "c", D |-> "d", E |-> "e", F |-> "f", G |-> "g", H |-> "h", I |-> "i", J |-> "j", K |-> "k", L |-> "l", M |-> "m", N |-> "n", O |-> "o", P |-> "p", Q |-> "q", R |-> "r", S |-> "s", T |-> "t", U |-> "u", V |-> "v", W |-> "w", X |-> "x", Y |-> "y", Z |-> "z"]

Lower(chars) ==
    [i \in 1..Len(chars) |->
        IF chars[i] \in DOMAIN LowerCase THEN LowerCase[chars[i]] ELSE chars[i]]

\* keyword in text_lower
Contains(keyword, text_lower) ==
    \E i \in 0..(Len(text_lower) - Len(keyword)) :
        \A j \in 1..Len(keyword) : text_lower[i + j] = keyword[j]

\* The keywords of a list found in the text, in the list's order.
KeywordMatches(keywords, text_lower) ==
    SelectSeq(keywords, LAMBDA keyword : Contains(keyword, text_lower))

\* s[:n] of a list
Take(s, n) == SubSeq(s, 1, Min(Len(s), n))

\* The first half of _keyword_match: the keywords of each label found in
\* the text.
KeywordsFound(text_lower) ==
    [SG |-> KeywordMatches(REGION_KEYWORDS["SG"], text_lower),
     AU |-> KeywordMatches(REGION_KEYWORDS["AU"], text_lower),
     Home |-> KeywordMatches(CATEGORY_KEYWORDS["Home"], text_lower),
     Business |-> KeywordMatches(CATEGORY_KEYWORDS["Business"], text_lower)]

\* The scoring with a tie going to the first label of the axis.
KeywordResult_TieToFirst(found) ==
    LET region == IF Len(found["SG"]) >= Len(found["AU"]) THEN "SG" ELSE "AU"
        category == IF Len(found["Home"]) >= Len(found["Business"]) THEN "Home"
                    ELSE "Business"
    IN [region |-> region,
        category |-> category,
        confidence |-> (Min(500 + Len(found[region]) * 150, 950)
                        + Min(500 + Len(found[category]) * 100, 950)) \div 2,
        reasoning |-> [source |-> "keyword", parts |-> <<>>]]

\* The second half of _keyword_match: the scores are the numbers of keywords
\* found; a label wins an axis with the strictly higher score.
KeywordResult(found) ==
    LET region == IF Len(found["SG"]) > Len(found["AU"]) THEN "SG"
                  ELSE IF Len(found["AU"]) > Len(found["SG"]) THEN "AU"
                  ELSE "None"
        region_confidence == IF region = "None" THEN 0
                             ELSE Min(500 + Len(found[region]) * 150, 950)
        category == IF Len(found["Home"]) > Len(found["Business"]) THEN "Home"
                    ELSE IF Len(found["Business"]) > Len(found["Home"]) THEN "Business"
                    ELSE "None"
        category_confidence == IF category = "None" THEN 0
                               ELSE Min(500 + Len(found[category]) * 100, 950)
        region_part == IF region # "None"
                       THEN <<[axis |-> "Region", label |-> region,
                               keywords |-> Take(found[region], 5)]>>
                       ELSE <<>>
        category_part == IF category # "None"
                         THEN <<[axis |-> "Category", label |-> category,
                                 keywords |-> Take(found[category], 5)]>>
                         ELSE <<>>
    IN [region |-> region,
        category |-> category,
        confidence |-> IF region # "None" /\ category # "None"
                       THEN (region_confidence + category_confidence) \div 2
                       ELSE 0,
        \* no parts: "No strong keyword indicators found"
        reasoning |-> [source |-> "keyword", parts |-> region_part \o category_part]]

\* _keyword_match: (region, category, confidence, reasoning), on the lowered
\* text.  Confidences of the router are in thousandths.
KeywordMatch(text) ==
    CHOOSE result \in UNION {{KeywordResult(found) : found \in {KeywordsFound(text_lower)}} :
                                text_lower \in {Lower(text.chars)}} : TRUE

\* What the zero-shot pipeline may answer for the two label pairs: the top
\* label of each pair and its score; or it raises.
ZeroShotScores == {520, 900, 1000}

TransformerOutcomes(loaded) ==
    IF ~loaded THEN {[raised |-> FALSE]}
    ELSE {[raised |-> TRUE]} \cup
         [raised : {FALSE}, region : Regions, region_score : ZeroShotScores,
          category : Categories, category_score : ZeroShotScores]

\* _transformer_classify
TransformerClassify(loaded, outcome) ==
    IF ~loaded
    THEN [region |-> "None", category |-> "None", confidence |-> 0,
          reasoning |-> [source |-> "unavailable", parts |-> <<>>]]
    ELSE [region |-> outcome.region, category |-> outcome.category,
          confidence |-> (outcome.region_score + outcome.category_score) \div 2,
          reasoning |-> [source |-> "semantic", parts |-> <<>>]]

\* The fallback of classify.
FallbackConfidence == 300

\* The acceptance test with a threshold of 0.7.
KeywordsDecide_Above70(kw) ==
    kw.confidence > 700 /\ kw.region # "None" /\ kw.category # "None"

\* classify returns the keyword result without asking the transformer.
KeywordsDecide(kw) ==
    kw.confidence > 500 /\ kw.region # "None" /\ kw.category # "None"

\* What classify does with the transformer: it returns before calling it,
\* finds none loaded, gets its answer, or the call raises.
TransformerUse(kw, loaded, outcome) ==
    IF KeywordsDecide(kw) THEN "not_called"
    ELSE IF ~loaded THEN "absent"
    ELSE IF outcome.raised THEN "raised"
    ELSE "answered"

\* classify passing the keyword result on as it is.
Classify_NoCategoryDefault(kw, include_reasoning, loaded, outcome) ==
    [region |-> kw.region, category |-> kw.category, confidence |-> kw.confidence,
     reasoning |-> IF include_reasoning THEN <<kw.reasoning>> ELSE <<>>]

\* RegionalClassifier.classify, from the point where _keyword_match has
\* returned kw.
Classify(kw, include_reasoning, loaded, outcome) ==
    LET tf == TransformerClassify(loaded, outcome)
        final ==
            IF KeywordsDecide(kw)
            THEN [kw EXCEPT !.reasoning.source = "[Keyword Match]"]
            ELSE IF tf.region # "None" /\ tf.confidence > kw.confidence
            THEN tf
            ELSE IF kw.region # "None"
            THEN [kw EXCEPT !.category = IF @ = "None" THEN "Home" ELSE @]
            ELSE [region |-> "SG", category |-> "Home",
                  confidence |-> FallbackConfidence,
                  reasoning |-> [source |-> "default", parts |-> <<>>]]
    IN [region |-> final.region, category |-> final.category,
        confidence |-> final.confidence,
        reasoning |-> IF include_reasoning THEN <<final.reasoning>> ELSE <<>>]

\* POST /classify: the request is validated, then classifier.classify runs;
\* what it raises becomes a 500.
ClassifyClaim ==
    /\ router_request # <<>> /\ router_response = <<>>
    /\ LET req == router_request[1]
       IN IF ~ClassifyRequestValid(req)
          THEN /\ router_response' = <<[status |-> 422]>>
               /\ classify_calls' = classify_calls
          ELSE \E kw \in {KeywordMatch(req.claim_text)} :
               \E outcome \in TransformerOutcomes(model_loaded) :
                  /\ classify_calls' =
                        Append(classify_calls,
                               [text |-> req.claim_text,
                                transformer |-> TransformerUse(kw, model_loaded, outcome)])
                  /\ router_response' =
                        <<IF outcome.raised /\ ~KeywordsDecide(kw)
                          THEN [status |-> 500]
                          ELSE [status |-> 200,
                                result |-> Classify(kw, req.include_reasoning,
                                                    model_loaded, outcome)]>>
    /\ UNCHANGED <<model_loaded, router_request, agentVars, ragVars, poolVars>>

\* The phrases the claim texts of the router are made of.
Phrases ==
    <<<<"W", "a", "t", "e", "r", " ", "l", "e", "a", "k", " ", "f", "r", "o", "m", " ", "m", "y", " ", "a", "i", "r", "-", "c", "o", "n", " ", "u", "n", "i", "t", " ", "i", "n", " ", "B", "e", "d", "o", "k", ".">>,
      <<"B", "e", "d", "o", "k">>,
      <<"a", "i", "r", "-", "c", "o", "n">>,
      <<"S", "y", "d", "n", "e", "y">>,
      <<"M", "a", "c", "h", "i", "n", "e", "r", "y", " ", "b", "r", "e", "a", "k", "d", "o", "w", "n", " ", "a", "t", " ", "m", "y", " ", "S", "y", "d", "n", "e", "y", " ", "w", "a", "r", "e", "h", "o", "u", "s", "e", ".">>,
      <<"f", "a", "c", "t", "o", "r", "y", " ", "o", "f", "f", "i", "c", "e", " ", "e", "q", "u", "i", "p", "m", "e", "n", "t", " ", "s", "t", "o", "c", "k">>,
      <<"C", "l", "a", "i", "m", " ", "l", "o", "d", "g", "e", "d">>,
      <<"m", "y", " ", "u", "n", "i", "t">>>>

\* The phrases chosen, in their order, joined by single spaces.
RECURSIVE JoinPhrases(_, _)
JoinPhrases(chosen, i) ==
    IF i > Len(Phrases) THEN <<>>
    ELSE IF i \notin chosen THEN JoinPhrases(chosen, i + 1)
    ELSE LET rest == JoinPhrases(chosen, i + 1)
         IN IF rest = <<>> THEN Phrases[i] ELSE Phrases[i] \o <<" ">> \o rest

\* The lengths a text is padded to: not at all, and to either side of the
\* two length limits.
PaddedLens(chars) ==
    {n \in {Len(chars), ClassifyTextMinLen - 1, ClassifyTextMinLen,
            ClassifyTextMaxLen, ClassifyTextMaxLen + 1} : n >= Len(chars)}

RouterTexts ==
    UNION {{[chars |-> JoinPhrases(chosen, 1), pad |-> n - Len(JoinPhrases(chosen, 1))] :
               n \in PaddedLens(JoinPhrases(chosen, 1))} :
           chosen \in {s \in SUBSET (1..Len(Phrases)) :
                          Cardinality(s) >= 1 /\ Cardinality(s) <= MaxPhrases}}

ClassifyRequests == [claim_text : RouterTexts, include_reasoning : BOOLEAN]

\* ------------------------------------------------- the specifications
\* The table after the chunks were ingested into an empty one.
TableOf(chunks) ==
    InsertChunks(<<>>, 1, chunks,
                 EmbedBatch([i \in 1..Len(chunks) |-> chunks[i].content]), {}, 1).table

SeedChunks ==
    <<ChunkInput(Text("cover_water", 521), "SG", "Home", MSIG, "Section 1"),
      ChunkInput(Text("excl_wear", 654), "SG", "Home", MSIG, "Exclusions"),
      ChunkInput(Text("limit_water", 124), "SG", "Home", MSIG, "Limits"),
      ChunkInput(Text("cover_property", 413), "AU", "Business", Zurich, "Section 2")>>

\* The table after the mock policies were ingested (scripts/seed_data.py).
SeedStore == TableOf(SeedChunks)

\* The router has received nothing.
RouterIdle ==
    /\ model_loaded = FALSE
    /\ router_request = <<>>
    /\ router_response = <<>>
    /\ classify_calls = <<>>

\* No connection of the pool is acquired.
PoolIdle ==
    /\ pool_in_use = 0
    /\ pool_waiters = <<>>

\* The agent service over a seeded retrieval engine.
Init ==
    /\ agent_llm \in BOOLEAN
    /\ runs = [r \in RunIds |-> IdleRun]
    /\ policy_chunks = SeedStore
    /\ next_id = Len(SeedStore) + 1
    /\ rag_request = <<>>
    /\ rag_response = <<>>
    /\ rag_faults = NoFaults
    /\ index_dim = EmbeddingDim
    /\ RouterIdle
    /\ PoolIdle
    /\ stats_query = NoStatsQuery

Next ==
    \E r \in RunIds :
        \/ AnalyzeClaim(r)
        \/ Analyze_Think(r)
        \/ Analyze_SearchClauses(r)
        \/ Analyze_SearchExclusions(r)
        \/ Analyze_SearchLimits(r)
        \/ Analyze_Decide(r)
        \/ AnalyzeClaim_Respond(r)
        \/ AnalyzeClaimStream(r)
        \/ Stream_Think(r)
        \/ Stream_ActClauses(r)
        \/ Stream_SearchClauses(r)
        \/ Stream_ActExclusions(r)
        \/ Stream_SearchExclusions(r)
        \/ Stream_Decide(r)
        \/ Stream_Complete(r)
        \/ Stream_Done(r)
        \/ Stream_Cancel(r)

Spec == Init /\ [][Next]_vars

\* Two requests of POST /analyze served at the same time by the one agent,
\* built with no LLM; the event loop switches between them at each await.
ConcurrentRunIds == {"r1", "r2"}

InitConcurrent ==
    /\ agent_llm = FALSE
    /\ runs = [r \in ConcurrentRunIds |-> IdleRun]
    /\ policy_chunks = SeedStore
    /\ next_id = Len(SeedStore) + 1
    /\ rag_request = <<>>
    /\ rag_response = <<>>
    /\ rag_faults = NoFaults
    /\ index_dim = EmbeddingDim
    /\ RouterIdle
    /\ PoolIdle
    /\ stats_query = NoStatsQuery

NextConcurrent ==
    \E r \in ConcurrentRunIds :
        \/ AnalyzeClaim(r)
        \/ Analyze_Think(r)
        \/ Analyze_SearchClauses(r)
        \/ Analyze_SearchExclusions(r)
        \/ Analyze_SearchLimits(r)
        \/ Analyze_Decide(r)
        \/ AnalyzeClaim_Respond(r)

SpecConcurrent == InitConcurrent /\ [][NextConcurrent]_vars

\* The retrieval engine alone, from an empty table.
InitRag ==
    /\ agent_llm = FALSE
    /\ runs = [r \in RunIds |-> IdleRun]
    /\ policy_chunks = <<>>
    /\ next_id = 1
    /\ rag_request = <<>>
    /\ rag_response = <<>>
    /\ rag_faults = NoFaults
    /\ index_dim = EmbeddingDim
    /\ RouterIdle
    /\ PoolIdle
    /\ stats_query = NoStatsQuery

NextRag == Ingest \/ DeletePolicy \/ Stats

SpecRag == InitRag /\ [][NextRag]_vars

\* One call of get_stats while ingest and delete_policy calls are served.
InitStats == InitRag

NextStats ==
    \/ GetStats_Total
    \/ GetStats_ByRegion
    \/ GetStats_ByCategory
    \/ GetStats_ByPolicy
    \/ Ingest
    \/ DeletePolicy

SpecStats == InitStats /\ [][NextStats]_vars

\* One classify request in flight at the router.
InitRouter ==
    /\ agent_llm = FALSE
    /\ runs = [r \in RunIds |-> IdleRun]
    /\ policy_chunks = SeedStore
    /\ next_id = Len(SeedStore) + 1
    /\ rag_request = <<>>
    /\ rag_response = <<>>
    /\ rag_faults = NoFaults
    /\ index_dim = EmbeddingDim
    /\ model_loaded \in BOOLEAN
    /\ router_request \in {<<q>> : q \in ClassifyRequests}
    /\ router_response = <<>>
    /\ classify_calls = <<>>
    /\ PoolIdle
    /\ stats_query = NoStatsQuery

NextRouter == ClassifyClaim

SpecRouter == InitRouter /\ [][NextRouter]_vars

\* The two services that take a claim text, each about to receive a request.
InitIntake ==
    /\ agent_llm = FALSE
    /\ runs = [r \in RunIds |-> IdleRun]
    /\ policy_chunks = SeedStore
    /\ next_id = Len(SeedStore) + 1
    /\ rag_request = <<>>
    /\ rag_response = <<>>
    /\ rag_faults = NoFaults
    /\ index_dim = EmbeddingDim
    /\ model_loaded = FALSE
    /\ router_request \in {<<q>> : q \in ClassifyRequests}
    /\ router_response = <<>>
    /\ classify_calls = <<>>
    /\ PoolIdle
    /\ stats_query = NoStatsQuery

NextIntake ==
    \/ ClassifyClaim
    \/ \E r \in RunIds : AnalyzeClaim(r)
    \/ \E r \in RunIds : AnalyzeClaimStream(r)

SpecIntake == InitIntake /\ [][NextIntake]_vars

\* The retrieval engine's pool, with no connection acquired.
InitPool ==
    /\ agent_llm = FALSE
    /\ runs = [r \in RunIds |-> IdleRun]
    /\ policy_chunks = SeedStore
    /\ next_id = Len(SeedStore) + 1
    /\ rag_request = <<>>
    /\ rag_response = <<>>
    /\ rag_faults = NoFaults
    /\ index_dim = EmbeddingDim
    /\ RouterIdle
    /\ PoolIdle
    /\ stats_query = NoStatsQuery

NextPool == PoolAcquire \/ PoolRelease \/ PoolTick

SpecPool == InitPool /\ [][NextPool]_vars

\* The dimensions the stored vectors may have: the embedding model's, or
\* the 768 of a table built with a larger model.
IndexDims == {EmbeddingDim, 2 * EmbeddingDim}

\* One search request in flight against a table of up to MaxRows rows.
InitSearch ==
    /\ agent_llm = FALSE
    /\ runs = [r \in RunIds |-> IdleRun]
    /\ policy_chunks \in {TableOf(chunks) : chunks \in SeqsUpTo(ChunkInputs, MaxRows)}
    /\ next_id = Len(policy_chunks) + 1
    /\ rag_request \in {<<[endpoint |-> e, req |-> q]>> :
                            e \in Endpoints, q \in RagSearchRequests}
    /\ rag_response = <<>>
    /\ rag_faults = NoFaults
    /\ index_dim \in IndexDims
    /\ RouterIdle
    /\ PoolIdle
    /\ stats_query = NoStatsQuery

NextSearch == Search

SpecSearch == InitSearch /\ [][NextSearch]_vars


\* ================================================================ claims
\* A run that reached DECIDE: _decide returned.
Decided(run) == run.decision_result # <<>>

HasLine(content, tag) == \E i \in 1..Len(content) : content[i].tag = tag

\* The (type, tool) of each step of a trace.
StepShape(trace) == [i \in 1..Len(trace) |-> <<trace[i].step_type, trace[i].tool_used>>]

\* The events analyze_stream has yielded.
Events(run) ==
    LET data == SelectSeq(run.frames, LAMBDA f : ~f.done)
    IN [i \in 1..Len(data) |-> data[i].event[1]]

StepEvents(run) == SelectSeq(Events(run), LAMBDA e : e.type = "step")

\* ---------------------------------------------------------------- C1
\* C1 (as claimed): for every oracle response the decision of a run that
\* reached DECIDE is one of the four values; with no DECISION label, or only
\* labels outside the four values, it is NEEDS_REVIEW; and the caller of
\* POST /analyze receives that decision, not an error.
C1_DecisionInEnum ==
    \A r \in RunIds :
        LET run == runs[r] IN
        (agent_llm /\ Decided(run)) =>
            LET content == run.oracle_content[1]
                decision == run.decision_result[1].decision
                valid_label == \E i \in 1..Len(content) :
                                   /\ content[i].tag = "DECISION:"
                                   /\ content[i].val \in DecisionEnum
            IN /\ decision \in DecisionEnum
               /\ ~valid_label => decision = "NEEDS_REVIEW"
               /\ (run.mode = "sync" /\ run.pc = "done") =>
                     /\ run.http_response[1].status = 200
                     /\ run.http_response[1].body.decision = decision

\* ---------------------------------------------------------------- C2
\* The outcomes of a retrieval call that are not a normal answer.
RetrievalFailures == {"exception", "http_error"}

\* C2: with no LLM configured nothing in a run raises, and a run of analyze
\* that reached DECIDE has decision NEEDS_REVIEW and the one fixed confidence,
\* whatever the claim text, region and category and whatever the three
\* retrieval calls did; POST /analyze answers 200 with that result.
C2_NoLlmNeedsReview ==
    ~agent_llm =>
        \A r \in RunIds :
            LET run == runs[r] IN
            /\ run.error = "none"
            /\ run.pc # "failed"
            /\ Decided(run) =>
                  /\ run.decision_result[1].decision = "NEEDS_REVIEW"
                  /\ run.decision_result[1].confidence = MockConfidence
            /\ (run.mode = "sync" /\ Decided(run)) =>
                  /\ run.state.decision = "NEEDS_REVIEW"
                  /\ run.state.confidence = MockConfidence
            /\ (run.mode = "sync" /\ run.pc = "done" /\ run.state.step_count > 0) =>
                  /\ run.http_response[1].status = 200
                  /\ run.http_response[1].body.decision = "NEEDS_REVIEW"
                  /\ run.http_response[1].body.confidence = MockConfidence

\* No LLM, a long claim text, all three retrieval calls failed, and the
\* caller has its answer.
C2_Witness ==
    /\ ~agent_llm
    /\ \E r \in RunIds :
          /\ runs[r].mode = "sync" /\ runs[r].pc = "done"
          /\ runs[r].state.claim_text.len > 100
          /\ runs[r].rag_outcome.clauses = "exception"
          /\ runs[r].rag_outcome.exclusions = "http_error"
          /\ runs[r].rag_outcome.limits = "exception"
          /\ runs[r].http_response[1].status = 200

\* ---------------------------------------------------------------- C3
\* C3: in every reachable state the i-th step of a run's reasoning trace
\* (counting from 1) has step_number i; and once the run reached DECIDE the
\* last step is a DECIDE step and no earlier one is.
C3_TraceNumbering ==
    \A r \in RunIds :
        LET trace == runs[r].state.reasoning_trace IN
        /\ \A i \in 1..Len(trace) : trace[i].step_number = i
        /\ Decided(runs[r]) =>
              /\ Len(trace) > 0
              /\ trace[Len(trace)].step_type = "DECIDE"
              /\ \A i \in 1..(Len(trace) - 1) : trace[i].step_type # "DECIDE"

\* A run of analyze that recorded all its steps and reached DECIDE.
C3_Witness ==
    \E r \in RunIds :
        /\ Decided(runs[r])
        /\ runs[r].mode = "sync"
        /\ Len(runs[r].state.reasoning_trace) = 8

\* ---------------------------------------------------------------- C4
\* The order the claim gives.
ClaimedStepOrder ==
    << <<"THINK", "None">>, <<"ACT", "search_policy_clauses">>, <<"OBSERVE", "None">>,
       <<"ACT", "check_exclusions">>, <<"OBSERVE", "None">>,
       <<"ACT", "check_limits">>, <<"OBSERVE", "None">>, <<"DECIDE", "None">> >>

\* The position of analyze in its fixed sequence.
AnalyzeRank(pc) ==
    CASE pc = "idle" -> 0
      [] pc = "think" -> 1
      [] pc = "search_clauses" -> 2
      [] pc = "search_exclusions" -> 3
      [] pc = "search_limits" -> 4
      [] pc = "decide" -> 5
      [] pc = "returned" -> 6
      [] OTHER -> 7

\* C4: a run of analyze that reached DECIDE recorded exactly the eight steps
\* THINK, ACT(search_policy_clauses), OBSERVE, ACT(check_exclusions), OBSERVE,
\* ACT(check_limits), OBSERVE, DECIDE in this order, whatever the retrieval
\* calls returned; the oracle's decision call was issued after three OBSERVE
\* steps; and every step of the run moves it forward in the sequence, so no
\* position is visited twice.
C4_EightSteps ==
    /\ [](\A r \in RunIds :
             LET run == runs[r]
                 trace == run.state.reasoning_trace
             IN run.mode = "sync" =>
                  /\ Decided(run) => StepShape(trace) = ClaimedStepOrder
                  /\ \A k \in 1..Len(run.oracle_calls) :
                        run.oracle_calls[k].call = "decide" =>
                            /\ run.oracle_calls[k].steps_recorded <= Len(trace)
                            /\ Cardinality({i \in 1..run.oracle_calls[k].steps_recorded :
                                               trace[i].step_type = "OBSERVE"}) = 3
                  /\ run.decision_result # <<>> =>
                        \E k \in 1..Len(run.oracle_calls) : run.oracle_calls[k].call = "decide")
    /\ [][\A r \in RunIds :
             (runs'[r] # runs[r] /\ runs'[r].mode = "sync") =>
                 AnalyzeRank(runs'[r].pc) > AnalyzeRank(runs[r].pc)]_vars

\* A run of analyze that reached DECIDE although all three retrieval calls
\* answered with nothing.
C4_Witness ==
    \E r \in RunIds :
        /\ runs[r].mode = "sync" /\ Decided(runs[r])
        /\ runs[r].rag_outcome = [clauses |-> "ok", exclusions |-> "ok", limits |-> "ok"]
        /\ runs[r].state.evidence = <<>>
        /\ runs[r].state.exclusions_found = <<>>
        /\ runs[r].state.limits_found = <<>>

\* ---------------------------------------------------------------- C5
\* C5 (as claimed): a finished run of analyze_stream has yielded step events
\* with the types, tools and order of the trace analyze records, and its
\* completion event carries what _decide returned.
C5_StreamSameAsAnalyze ==
    \A r \in RunIds :
        LET run == runs[r] IN
        (run.mode = "stream" /\ run.pc = "done" /\ Decided(run)) =>
            LET steps == StepEvents(run)
                analysed ==
                    AnalyzeDecide(
                        AnalyzeObserveLimits(
                            AnalyzeObserveExclusions(
                                AnalyzeObserveClauses(AnalyzeThink(NoState), <<>>),
                                <<>>),
                            <<>>),
                        run.decision_result[1])
            IN /\ StepShape([i \in 1..Len(steps) |-> steps[i].step])
                      = StepShape(analysed.reasoning_trace)
               /\ \E i \in 1..Len(Events(run)) :
                      /\ Events(run)[i].type = "complete"
                      /\ Events(run)[i].decision = analysed.decision
                      /\ Events(run)[i].confidence = analysed.confidence
                      /\ Events(run)[i].summary = analysed.summary

\* ---------------------------------------------------------------- C6
\* An event that carries a decision: the completion event, or the DECIDE
\* step event (its content names the decision).
CarriesDecision(e) ==
    \/ e.type = "complete"
    \/ e.type = "step" /\ e.step.step_type = "DECIDE"

\* C6: a run of analyze_stream yields the completion event at most once, only
\* after the DECIDE step event, and as its last event (only the end-of-stream
\* frame may follow it); a run cancelled before DECIDE has yielded no event
\* that carries a decision and yields nothing afterwards; and no step of a
\* run changes the retrieval engine's stored chunks.
C6_CompleteOnceAndLast ==
    /\ [](\A r \in RunIds :
             LET run == runs[r]
                 events == Events(run)
                 completes == {i \in 1..Len(events) : events[i].type = "complete"}
             IN run.mode = "stream" =>
                  /\ Cardinality(completes) <= 1
                  /\ \A i \in completes :
                        /\ i = Len(events)
                        /\ \E j \in 1..(i - 1) : /\ events[j].type = "step"
                                                 /\ events[j].step.step_type = "DECIDE"
                  /\ \A k \in 1..Len(run.frames) :
                        run.frames[k].done => k = Len(run.frames)
                  /\ (run.pc = "cancelled" /\ ~Decided(run)) =>
                        \A i \in 1..Len(events) : ~CarriesDecision(events[i]))
    /\ [][\A r \in RunIds :
             /\ runs[r].pc = "cancelled" => runs'[r] = runs[r]
             /\ policy_chunks' = policy_chunks]_vars

\* A stream cancelled while _decide was awaited, after both retrieval calls.
C6_Witness ==
    \E r \in RunIds :
        /\ runs[r].mode = "stream" /\ runs[r].pc = "cancelled"
        /\ ~Decided(runs[r])
        /\ runs[r].rag_outcome.exclusions # "none"
        /\ Len(runs[r].oracle_calls) = 2

\* ---------------------------------------------------------------- C7
\* C7: no failure of a retrieval call ends a run: whatever the three calls
\* did, the run is never failed by retrieval, a run awaiting a retrieval call
\* or the decision can continue, and a run of analyze that returned has all
\* eight steps and the decision _decide gave.
C7_RetrievalFailureTolerated ==
    \A r \in RunIds :
        LET run == runs[r] IN
        /\ run.error # "retrieval"
        /\ (run.mode = "sync" /\ run.pc = "search_clauses") => ENABLED Analyze_SearchClauses(r)
        /\ (run.mode = "sync" /\ run.pc = "search_exclusions") =>
              ENABLED Analyze_SearchExclusions(r)
        /\ (run.mode = "sync" /\ run.pc = "search_limits") => ENABLED Analyze_SearchLimits(r)
        /\ (run.mode = "sync" /\ run.pc = "decide") => ENABLED Analyze_Decide(r)
        /\ (run.mode = "sync" /\ run.pc = "returned") =>
              /\ Len(run.state.reasoning_trace) = 8
              /\ LastStep(run.state).step_type = "DECIDE"
              /\ Decided(run)
              /\ run.state.decision = run.decision_result[1].decision
        /\ \A k \in {"clauses", "exclusions", "limits"} :
              run.rag_outcome[k] \in RetrievalFailures => run.pc # "failed" \/ run.error = "oracle"

\* analyze returned a decision although every retrieval call failed.
C7_Witness ==
    \E r \in RunIds :
        /\ runs[r].mode = "sync" /\ runs[r].pc = "returned"
        /\ runs[r].rag_outcome.clauses = "http_error"
        /\ runs[r].rag_outcome.exclusions = "exception"
        /\ runs[r].rag_outcome.limits = "http_error"
        /\ Decided(runs[r])

\* ---------------------------------------------------------------- C8
\* C8: when the oracle's response has no CONFIDENCE line whose value parses
\* as a number, the confidence _decide returns is 0.5; when it has no SUMMARY
\* line, the summary is the raw response text.
C8_ParseDefaults ==
    \A r \in RunIds :
        LET run == runs[r] IN
        (agent_llm /\ Decided(run)) =>
            LET content == run.oracle_content[1]
                result == run.decision_result[1]
                parseable == \E i \in 1..Len(content) :
                                 /\ content[i].tag = "CONFIDENCE:"
                                 /\ ParseFloat(content[i].val) # <<>>
            IN /\ ~parseable => result.confidence = 50
               /\ ~HasLine(content, "SUMMARY:") => result.summary = content
               /\ run.mode = "sync" =>
                     /\ run.state.confidence = result.confidence
                     /\ run.state.summary = result.summary

\* The oracle answered with a decision and a confidence that is no number,
\* and with no summary.
C8_Witness ==
    \E r \in RunIds :
        /\ agent_llm /\ Decided(runs[r])
        /\ LET content == runs[r].oracle_content[1]
           IN /\ \E i \in 1..Len(content) : content[i] = Line("CONFIDENCE:", "high")
              /\ HasLine(content, "DECISION:")
              /\ ~HasLine(content, "SUMMARY:")
              /\ \A i \in 1..Len(content) :
                    content[i].tag = "CONFIDENCE:" => ParseFloat(content[i].val) = <<>>

\* ---------------------------------------------------------------- C9
\* C9 (as claimed): for every oracle response the confidence of the result a
\* run produced lies in [0, 1], and the caller of POST /analyze receives it.
C9_ConfidenceInUnitInterval ==
    \A r \in RunIds :
        LET run == runs[r] IN
        Decided(run) =>
            /\ run.decision_result[1].confidence >= 0
            /\ run.decision_result[1].confidence <= 100
            /\ (run.mode = "sync" /\ run.pc = "done") => run.http_response[1].status = 200

\* --------------------------------------------------------------- C10
\* C10 (as claimed): every chunk of a search result has a score of at least
\* the request's min_score, the list is in non-increasing order of score, and
\* chunks of equal score are in the order they were inserted.
C10_SortedStable ==
    (rag_response # <<>> /\ rag_response[1].status = 200) =>
        LET chunks == rag_response[1].chunks
            min_score == rag_request[1].req.min_score
        IN /\ \A i \in 1..Len(chunks) : chunks[i].similarity_score >= min_score
           /\ \A i, j \in 1..Len(chunks) :
                 i < j => chunks[i].similarity_score >= chunks[j].similarity_score
           /\ \A i, j \in 1..Len(chunks) :
                 (i < j /\ chunks[i].similarity_score = chunks[j].similarity_score)
                     => chunks[i].id < chunks[j].id

\* --------------------------------------------------------------- C11
\* The request as the search handler runs it, and the embedding of its query.
HandledRequest == AugmentedRequest(rag_request[1].endpoint, rag_request[1].req)

\* A filter field that carries a value.
FilterPresent(f) == f # "None" /\ f # ""

\* A search was answered with a result list.
SearchAnswered ==
    /\ rag_request # <<>> /\ rag_response # <<>>
    /\ rag_request[1].endpoint \in Endpoints
    /\ rag_response[1].status = 200

RowScore(row) == SimilarityScore(row.embedding, EmbedText(HandledRequest.query))

\* The rows of the table that pass the request's filters and threshold.
QualifyingRows ==
    {i \in 1..Len(policy_chunks) :
        /\ FilterPresent(HandledRequest.region) =>
              policy_chunks[i].region = HandledRequest.region
        /\ FilterPresent(HandledRequest.category) =>
              policy_chunks[i].category = HandledRequest.category
        /\ RowScore(policy_chunks[i]) >= HandledRequest.min_score}

\* C11: a search result has at most top_k chunks; it has top_k of them, or all
\* the qualifying rows when fewer qualify; each is a distinct qualifying row
\* with its score; and no qualifying row left out scores higher than a
\* returned one.
C11_TopK ==
    SearchAnswered =>
        LET chunks == rag_response[1].chunks
            top_k == HandledRequest.top_k
            returned == {chunks[k].id : k \in 1..Len(chunks)}
        IN /\ Len(chunks) <= top_k
           /\ Len(chunks) = Min(top_k, Cardinality(QualifyingRows))
           /\ Cardinality(returned) = Len(chunks)
           /\ \A k \in 1..Len(chunks) :
                 \E i \in QualifyingRows :
                     /\ policy_chunks[i].id = chunks[k].id
                     /\ chunks[k].similarity_score = RowScore(policy_chunks[i])
           /\ \A i \in QualifyingRows :
                 policy_chunks[i].id \notin returned =>
                     \A k \in 1..Len(chunks) :
                         chunks[k].similarity_score >= RowScore(policy_chunks[i])

\* A result cut to top_k: a qualifying row of lower score was left out.
C11_Witness ==
    /\ SearchAnswered
    /\ Len(rag_response[1].chunks) = HandledRequest.top_k
    /\ \E i \in QualifyingRows :
          /\ \A k \in 1..Len(rag_response[1].chunks) :
                /\ rag_response[1].chunks[k].id # policy_chunks[i].id
                /\ rag_response[1].chunks[k].similarity_score > RowScore(policy_chunks[i])

\* --------------------------------------------------------------- C12
\* C12: when the request carries a region, every returned chunk has that
\* region, and likewise for the category; a filter field that is absent
\* excludes no chunk: a row that passes the other conditions is left out only
\* because top_k rows of at least its score were returned.
C12_Filters ==
    SearchAnswered =>
        LET chunks == rag_response[1].chunks
            req == HandledRequest
            returned == {chunks[k].id : k \in 1..Len(chunks)}
            outranked(row) ==
                /\ Len(chunks) = req.top_k
                /\ \A k \in 1..Len(chunks) : chunks[k].similarity_score >= RowScore(row)
        IN /\ FilterPresent(req.region) =>
                 \A k \in 1..Len(chunks) : chunks[k].region = req.region
           /\ FilterPresent(req.category) =>
                 \A k \in 1..Len(chunks) : chunks[k].category = req.category
           /\ ~FilterPresent(req.region) =>
                 \A i \in 1..Len(policy_chunks) :
                     LET row == policy_chunks[i] IN
                     (/\ FilterPresent(req.category) => row.category = req.category
                      /\ RowScore(row) >= req.min_score
                      /\ row.id \notin returned) => outranked(row)
           /\ ~FilterPresent(req.category) =>
                 \A i \in 1..Len(policy_chunks) :
                     LET row == policy_chunks[i] IN
                     (/\ FilterPresent(req.region) => row.region = req.region
                      /\ RowScore(row) >= req.min_score
                      /\ row.id \notin returned) => outranked(row)

\* A search by region SG alone over a table that also holds AU rows: the
\* result has chunks, all of them SG, of a category the request did not name.
C12_Witness ==
    /\ SearchAnswered
    /\ HandledRequest.region = "SG" /\ HandledRequest.category = "None"
    /\ rag_response[1].chunks # <<>>
    /\ \E i \in 1..Len(policy_chunks) :
          /\ policy_chunks[i].region = "AU"
          /\ RowScore(policy_chunks[i]) >= HandledRequest.min_score

\* --------------------------------------------------------------- C13
\* A step that served POST /ingest.
IngestStep == rag_request' # <<>> /\ rag_request'[1].endpoint = "/ingest"

\* C13 (as claimed): when the embedding or the insert of chunks of an ingest
\* fails, the other chunks of the batch are inserted, in their order, and the
\* response carries the number of rows added, which is below the number of
\* chunks exactly when some chunk failed.
C13_PartialIngest ==
    [][IngestStep =>
          LET chunks == rag_request'[1].chunks
              failed == rag_faults'.embed \cup rag_faults'.insert
              kept == SelectSeq([i \in 1..Len(chunks) |-> [i |-> i, chunk |-> chunks[i]]],
                                LAMBDA c : c.i \notin failed)
              added == Len(policy_chunks') - Len(policy_chunks)
          IN /\ rag_response'[1].status = 200
             /\ added = Len(kept)
             /\ \A k \in 1..Len(kept) :
                   /\ Len(policy_chunks) + k <= Len(policy_chunks')
                   /\ policy_chunks'[Len(policy_chunks) + k].content = kept[k].chunk.content
             /\ rag_response'[1].chunks_ingested = added
             /\ (rag_response'[1].chunks_ingested < Len(chunks)) <=> (failed # {})
      ]_vars

\* --------------------------------------------------------------- C14
\* A count of a statistics dict; a key with no row is not in the dict.
StatCount(counts, key) == IF key \in DOMAIN counts THEN counts[key] ELSE 0

\* All chunks of the request were inserted, into a store with no chunk of the
\* request's policy.
CleanIngestStep ==
    /\ IngestStep
    /\ rag_faults' = NoFaults
    /\ rag_response'[1].status = 200
    /\ \A i \in 1..Len(policy_chunks) :
          policy_chunks[i].policy_name # rag_request'[1].policy_name

\* What C14 says of the statistics before and after the step.
StatsGrewByBatch ==
    LET P == rag_request'[1].policy_name
        chunks == rag_request'[1].chunks
        before == GetStats(policy_chunks)
        after == GetStats(policy_chunks')
    IN /\ StatCount(after.by_policy, P) = Len(chunks)
       /\ after.total_chunks = before.total_chunks + Len(chunks)
       /\ \A g \in Regions :
             StatCount(after.by_region, g) = StatCount(before.by_region, g)
                 + Cardinality({i \in 1..Len(chunks) : chunks[i].region = g})
       /\ \A g \in Categories :
             StatCount(after.by_category, g) = StatCount(before.by_category, g)
                 + Cardinality({i \in 1..Len(chunks) : chunks[i].category = g})

\* C14 (as claimed): after ingest(P, chunks) of n chunks that all succeed,
\* into a store with no chunk of policy P, the statistics count n chunks for
\* P, n more chunks in total, and as many more per region and category as the
\* batch has.
C14_StatsAfterIngest_Claimed == [][CleanIngestStep => StatsGrewByBatch]_vars

\* C14 (amended): the same, for a batch whose chunks all carry policy_name P.
C14_StatsAfterIngest ==
    [][(/\ CleanIngestStep
        /\ \A i \in 1..Len(rag_request'[1].chunks) :
              rag_request'[1].chunks[i].policy_name = rag_request'[1].policy_name)
        => StatsGrewByBatch]_vars

\* Two chunks of policy P were just ingested into a store that held one chunk
\* of another policy.
C14_Witness ==
    /\ rag_request # <<>> /\ rag_request[1].endpoint = "/ingest"
    /\ rag_faults = NoFaults
    /\ rag_response[1].status = 200
    /\ Len(rag_request[1].chunks) = 2
    /\ \A i \in 1..2 : rag_request[1].chunks[i].policy_name = rag_request[1].policy_name
    /\ rag_response[1].chunks_ingested = 2
    /\ Len(policy_chunks) = 3
    /\ policy_chunks[1].policy_name # rag_request[1].policy_name
    /\ StatCount(GetStats(policy_chunks).by_policy, rag_request[1].policy_name) = 2

\* --------------------------------------------------------------- C15
\* C15 (as claimed): a search whose query vector has another dimension than
\* the stored vectors it is compared with fails, with an error that differs
\* from the one the handler returns for its other failures; it returns no
\* result list, and the store is unchanged.
C15_DimensionMismatch ==
    (/\ rag_request # <<>> /\ rag_response # <<>>
     /\ rag_request[1].endpoint \in Endpoints
     /\ SearchRequestValid(HandledRequest)
     /\ index_dim # EmbeddingDim
     /\ RowsCompared(policy_chunks, HandledRequest) # {}) =>
        /\ rag_response[1].status # 200
        /\ rag_response[1].chunks = <<>>
        /\ rag_response[1] # ErrorResponse(500)

\* --------------------------------------------------------------- C16
\* POST /classify has run the classifier on the request's text.
Classified ==
    /\ router_request # <<>> /\ router_response # <<>>
    /\ Len(classify_calls) = 1
    /\ classify_calls[1].text = router_request[1].claim_text

\* C16 (as claimed): every text that contains "Bedok" and "air-con" is
\* classified SG / Home with a confidence above 0.5 by the keyword pass,
\* whether the transformer is loaded or not.
C16_BedokAirCon ==
    (/\ Classified
     /\ Contains(<<"B", "e", "d", "o", "k">>, router_request[1].claim_text.chars)
     /\ Contains(<<"a", "i", "r", "-", "c", "o", "n">>, router_request[1].claim_text.chars)) =>
        /\ router_response[1].status = 200
        /\ router_response[1].result.region = "SG"
        /\ router_response[1].result.category = "Home"
        /\ router_response[1].result.confidence > 500
        /\ router_request[1].include_reasoning =>
              router_response[1].result.reasoning[1].source = "[Keyword Match]"

\* --------------------------------------------------------------- C17
\* C17 (as claimed): when the keyword pass leaves the region or the category
\* unresolved and the transformer is not loaded, the answer is the default:
\* SG, Home, confidence 0.3, and the request does not fail.
C17_FixedDefault ==
    (/\ Classified
     /\ ~model_loaded
     /\ \/ KeywordMatch(router_request[1].claim_text).region = "None"
        \/ KeywordMatch(router_request[1].claim_text).category = "None") =>
        /\ router_response[1].status = 200
        /\ router_response[1].result.region = "SG"
        /\ router_response[1].result.category = "Home"
        /\ router_response[1].result.confidence = 300

\* --------------------------------------------------------------- C19
\* The length of the claim text is within the limits the claim names.
LengthInLimits(n) == n >= 10 /\ n <= 5000

\* The router rejected its request, and nothing but the rejection happened.
ClassifyRejected ==
    /\ router_response = <<[status |-> 422]>>
    /\ classify_calls = <<>>

\* The agent rejected the request of run r, and nothing else happened: no
\* state, no oracle call, no retrieval request, no frame.
AnalyzeRejected(r) ==
    /\ runs[r].http_response = <<[status |-> 422]>>
    /\ runs[r].pc = "done"
    /\ runs[r].state = NoState
    /\ runs[r].oracle_calls = <<>>
    /\ runs[r].frames = <<>>
    /\ runs[r].decision_result = <<>>
    /\ rag_request = <<>>
    /\ policy_chunks = SeedStore

\* C19: a Classify or Analyze request is rejected with a validation error
\* exactly when its claim text is shorter than 10 or longer than 5000
\* characters, and a rejected request reached neither the classifier, nor
\* the retrieval engine, nor an oracle, and left no state.
C19_LengthValidation ==
    /\ router_response # <<>> =>
          /\ LengthInLimits(TextLen(router_request[1].claim_text))
                <=> router_response[1].status # 422
          /\ router_response[1].status = 422 => ClassifyRejected
    /\ \A r \in RunIds : runs[r].request # <<>> =>
          /\ LengthInLimits(runs[r].request[1].claim_text.len)
                <=> runs[r].http_response # <<[status |-> 422]>>
          /\ runs[r].http_response = <<[status |-> 422]>> => AnalyzeRejected(r)

\* The router rejected a text of 5001 characters and accepted none of 9; the
\* agent rejected a text of 9 characters.
C19_Witness ==
    /\ router_response # <<>>
    /\ TextLen(router_request[1].claim_text) = 5001
    /\ ClassifyRejected
    /\ \E r \in RunIds :
          /\ runs[r].request # <<>>
          /\ runs[r].request[1].claim_text.len = 9
          /\ AnalyzeRejected(r)

\* --------------------------------------------------------------- C20
\* C20 (as claimed): the pool never has more than its maximum of
\* connections acquired, and no acquisition is still waiting after more
\* than one timeout period: by then it has failed.
C20_AcquireTimesOut ==
    /\ pool_in_use <= PoolMaxSize
    /\ \A i \in 1..Len(pool_waiters) : pool_waiters[i].waited <= 1

\* --------------------------------------------------------------- C21
\* C21 (as claimed): what POST /search/exclusions and POST /search/limits
\* answer to a query is an answer of POST /search to the rewritten query with
\* the same region, category, top_k and min_score.
C21_ThinSpecializations ==
    (/\ rag_request # <<>> /\ rag_response # <<>>
     /\ rag_request[1].endpoint \in {"/search/exclusions", "/search/limits"}
     /\ rag_response[1].status = 200) =>
        rag_response[1] \in PostSearch(policy_chunks, "/search", HandledRequest)

\* --------------------------------------------------------------- C22
\* The list is the contents of the hits, each cut to 200 characters, in the
\* hits' order.
PreviewsOf(list, hits) ==
    /\ Len(list) = Len(hits)
    /\ \A i \in 1..Len(hits) :
          /\ list[i].id = hits[i].content.id
          /\ list[i].len = Min(hits[i].content.len, 200)

\* The list has one item per hit, in the hits' order.
EvidenceOf(list, hits) ==
    /\ Len(list) = Len(hits)
    /\ \A i \in 1..Len(hits) :
          /\ list[i].content = hits[i].content
          /\ list[i].policy_name = hits[i].policy_name
          /\ list[i].section = hits[i].section
          /\ list[i].relevance_score = hits[i].similarity_score

\* What a step of analyze does to the three lists of run r.
ListsStep(r) ==
    LET run == runs[r]
        state == run.state
        after == runs'[r].state
    IN IF run.pc = "search_clauses" /\ runs'[r].pc = "search_exclusions"
       THEN /\ \E out \in ToolSearchClauses(policy_chunks, state.claim_text,
                                            state.region, state.category) :
                  /\ out.outcome = runs'[r].rag_outcome.clauses
                  /\ EvidenceOf(after.evidence, out.chunks)
            /\ after.exclusions_found = <<>> /\ after.limits_found = <<>>
       ELSE IF run.pc = "search_exclusions" /\ runs'[r].pc = "search_limits"
       THEN /\ \E out \in ToolSearchExclusions(policy_chunks, state.claim_text,
                                               state.region, state.category) :
                  /\ out.outcome = runs'[r].rag_outcome.exclusions
                  /\ PreviewsOf(after.exclusions_found, out.chunks)
            /\ after.evidence = state.evidence /\ after.limits_found = <<>>
       ELSE IF run.pc = "search_limits" /\ runs'[r].pc = "decide"
       THEN /\ \E out \in ToolSearchLimits(policy_chunks, state.claim_text,
                                           state.region, state.category) :
                  /\ out.outcome = runs'[r].rag_outcome.limits
                  /\ PreviewsOf(after.limits_found, out.chunks)
            /\ after.evidence = state.evidence
            /\ after.exclusions_found = state.exclusions_found
       ELSE /\ after.evidence = state.evidence
            /\ after.exclusions_found = state.exclusions_found
            /\ after.limits_found = state.limits_found

\* C22: in a run of analyze the evidence is one item per chunk the clause
\* search returned, in that order; exclusions_found and limits_found are the
\* contents of the hits of their searches cut to 200 characters, in the
\* hits' order; no other step changes a list, and the response carries the
\* three lists as they are.
C22_ListsFollowHits ==
    /\ [](\A r \in RunIds :
            (runs[r].http_response # <<>> /\ runs[r].http_response[1].status = 200) =>
                /\ runs[r].http_response[1].body.evidence = runs[r].state.evidence
                /\ runs[r].http_response[1].body.exclusions_found
                      = runs[r].state.exclusions_found
                /\ runs[r].http_response[1].body.limits_found = runs[r].state.limits_found)
    /\ [][\A r \in RunIds : runs'[r].mode = "sync" => ListsStep(r)]_vars

\* A run of analyze answered with two items of evidence, two exclusions,
\* the first of them cut from 654 to 200 characters, and two limits.
C22_Witness ==
    \E r \in RunIds :
        /\ runs[r].http_response # <<>> /\ runs[r].http_response[1].status = 200
        /\ runs[r].rag_outcome.exclusions = "ok"
        /\ Len(runs[r].http_response[1].body.evidence) = 2
        /\ Len(runs[r].http_response[1].body.exclusions_found) = 2
        /\ runs[r].http_response[1].body.exclusions_found[1] =
              [id |-> "excl_wear", len |-> 200, rewrite |-> "none"]
        /\ Len(runs[r].http_response[1].body.limits_found) = 2

\* --------------------------------------------------------------- C23
\* C23: whatever the text, with the transformer absent or answering with
\* any scores, classify returns a result whose region is SG or AU, whose
\* category is Home or Business and whose confidence lies in [0,1].
C23_AlwaysClassifies ==
    (Classified /\ classify_calls[1].transformer # "raised") =>
        /\ router_response[1].status = 200
        /\ router_response[1].result.region \in {"SG", "AU"}
        /\ router_response[1].result.category \in {"Home", "Business"}
        /\ router_response[1].result.confidence >= 0
        /\ router_response[1].result.confidence <= 1000

\* The keyword pass found a region and no category, and the transformer is
\* absent: the category is filled in.
C23_Witness ==
    /\ Classified
    /\ classify_calls[1].transformer = "absent"
    /\ KeywordMatch(router_request[1].claim_text).region = "AU"
    /\ KeywordMatch(router_request[1].claim_text).category = "None"
    /\ router_response[1].status = 200
    /\ router_response[1].result.category = "Home"

\* --------------------------------------------------------------- C24
\* The label of an axis with counts a and b for its two labels, as claimed:
\* the label with the strictly higher count, none on a tie.
ClaimedLabel(first, a, second, b) ==
    IF a > b THEN first ELSE IF b > a THEN second ELSE "None"

\* min(0.5 + step * count, 0.95), in thousandths.
ClaimedAxisConfidence(step, count) ==
    IF 500 + step * count < 950 THEN 500 + step * count ELSE 950

\* C24: in the keyword pass of a classified text an axis is resolved exactly
\* when one label has strictly more keywords in the text than the other; the
\* combined confidence is the mean of min(0.5 + 0.15 * count, 0.95) for the
\* region and min(0.5 + 0.10 * count, 0.95) for the category when both axes
\* are resolved, and 0 otherwise; the answer of classify carries that result
\* when the keyword pass decides.
C24_KeywordConfidence ==
    Classified =>
        \A text_lower \in {Lower(router_request[1].claim_text.chars)} :
        \A sg \in {Len(KeywordMatches(REGION_KEYWORDS["SG"], text_lower))},
           au \in {Len(KeywordMatches(REGION_KEYWORDS["AU"], text_lower))},
           home \in {Len(KeywordMatches(CATEGORY_KEYWORDS["Home"], text_lower))},
           business \in {Len(KeywordMatches(CATEGORY_KEYWORDS["Business"], text_lower))},
           kw \in {KeywordMatch(router_request[1].claim_text)} :
        LET region == ClaimedLabel("SG", sg, "AU", au)
            category == ClaimedLabel("Home", home, "Business", business)
            confidence ==
                IF region # "None" /\ category # "None"
                THEN (ClaimedAxisConfidence(150, IF region = "SG" THEN sg ELSE au)
                      + ClaimedAxisConfidence(100, IF category = "Home" THEN home
                                                   ELSE business)) \div 2
                ELSE 0
        IN /\ kw.region = region
           /\ kw.category = category
           /\ kw.confidence = confidence
           /\ classify_calls[1].transformer = "not_called" =>
                 /\ router_response[1].result.region = region
                 /\ router_response[1].result.category = category
                 /\ router_response[1].result.confidence = confidence
           /\ (classify_calls[1].transformer = "absent" /\ region # "None") =>
                 /\ router_response[1].result.region = region
                 /\ router_response[1].result.confidence = confidence

\* Both axis confidences are capped at 0.95: six AU and six Business
\* keywords in the text.
C24_Witness ==
    /\ Classified
    /\ classify_calls[1].transformer = "not_called"
    /\ Len(KeywordMatches(REGION_KEYWORDS["AU"],
                          Lower(router_request[1].claim_text.chars))) = 6
    /\ router_response[1].result.region = "AU"
    /\ router_response[1].result.confidence = 950

\* --------------------------------------------------------------- C27
\* C27: when the keyword pass resolves both axes its confidence is at least
\* 0.625 and classify answers with the keyword result without calling the
\* transformer; when classify goes on to the transformer, the keyword
\* confidence is 0.
C27_KeywordPassDecides ==
    Classified =>
        \A kw \in {KeywordMatch(router_request[1].claim_text)} :
            /\ (kw.region # "None" /\ kw.category # "None") =>
                  /\ kw.confidence >= 625
                  /\ classify_calls[1].transformer = "not_called"
                  /\ router_response[1].status = 200
                  /\ router_response[1].result.region = kw.region
                  /\ router_response[1].result.category = kw.category
                  /\ router_response[1].result.confidence = kw.confidence
            /\ classify_calls[1].transformer # "not_called" => kw.confidence = 0

\* One keyword on each axis, the transformer loaded and not called.
C27_Witness ==
    /\ Classified
    /\ model_loaded
    /\ classify_calls[1].transformer = "not_called"
    /\ router_response[1].status = 200
    /\ router_response[1].result.confidence = 625

\* --------------------------------------------------------------- C25
\* The body analyze returns for a request when it is the only run of the
\* agent and its three tool calls return these chunks: the segments of
\* analyze applied one after the other to a new AgentState.
AnalyzeAlone(request, clauses, exclusions, limits) ==
    LET started == AnalyzeThink(AgentState(request.claim_text, request.region,
                                           request.category))
        observed == AnalyzeObserveLimits(
                        AnalyzeObserveExclusions(
                            AnalyzeObserveClauses(started, clauses), exclusions), limits)
    IN AnalyzeResponse(AnalyzeDecide(observed, Decide(FALSE, observed, <<>>)))

\* The body is one analyze can return for the request as the only run, for
\* some answers of the retrieval engine to its three calls.
ResultAlone(body, request) ==
    \E c \in ToolSearchClauses(policy_chunks, request.claim_text,
                               request.region, request.category) :
    \E e \in ToolSearchExclusions(policy_chunks, request.claim_text,
                                  request.region, request.category) :
    \E l \in ToolSearchLimits(policy_chunks, request.claim_text,
                              request.region, request.category) :
        body = AnalyzeAlone(request, c.chunks, e.chunks, l.chunks)

\* The run was answered with a result.
Answered(run) == run.http_response # <<>> /\ run.http_response[1].status = 200

\* C25: with two runs of analyze interleaved at every await on the one
\* agent, the steps of each run's trace are numbered 1, 2, ... without
\* gaps, a step of one run changes nothing of the other, and the body a run
\* is answered with (trace, evidence, exclusions_found, limits_found,
\* decision) is one it can get for its request as the agent's only run.
C25_RunsIndependent ==
    /\ [](\A r \in ConcurrentRunIds :
            \A i \in 1..Len(runs[r].state.reasoning_trace) :
                runs[r].state.reasoning_trace[i].step_number = i)
    /\ [][\A r \in ConcurrentRunIds :
             runs'[r] # runs[r] =>
                /\ \A other \in ConcurrentRunIds \ {r} : runs'[other] = runs[other]
                /\ Answered(runs'[r]) =>
                      ResultAlone(runs'[r].http_response[1].body, runs'[r].request[1])]_vars

\* Both runs are under way at once, each waiting at an await of its own:
\* one has its three lists and seven steps, the other its evidence and four
\* steps, for a different request.
C25_Witness ==
    /\ runs["r1"].pc = "decide" /\ runs["r2"].pc = "search_exclusions"
    /\ runs["r1"].request[1].region = "SG" /\ runs["r2"].request[1].region = "AU"
    /\ Len(runs["r1"].state.reasoning_trace) = 7
    /\ Len(runs["r2"].state.reasoning_trace) = 4
    /\ runs["r1"].state.evidence # <<>>
    /\ runs["r1"].state.exclusions_found # <<>>
    /\ runs["r1"].state.limits_found # <<>>
    /\ runs["r2"].state.evidence # <<>>
    /\ runs["r2"].state.evidence # runs["r1"].state.evidence

\* --------------------------------------------------------------- C26
\* The step is a call of delete_policy.
DeleteStep == rag_request' # <<>> /\ rag_request'[1].endpoint = "delete_policy"

\* The ids of the rows of a policy.
RowIdsOf(table, policy_name) ==
    {table[i].id : i \in {k \in 1..Len(table) : table[k].policy_name = policy_name}}

\* C26: delete_policy(name) removes the rows whose policy_name is name and
\* leaves every other row as it was; it returns the number of rows removed;
\* afterwards the statistics have no by_policy entry for name, and the
\* entries of the other policies are the ones from before.
C26_DeletePolicy ==
    [][DeleteStep =>
         LET name == rag_request'[1].policy_name
             before == {policy_chunks[i] : i \in 1..Len(policy_chunks)}
             after == {policy_chunks'[i] : i \in 1..Len(policy_chunks')}
             stats == GetStats(policy_chunks)
             stats_after == GetStats(policy_chunks')
         IN /\ after = {row \in before : row.policy_name # name}
            /\ Len(policy_chunks') = Cardinality(after)
            /\ rag_response'[1].count = Cardinality(RowIdsOf(policy_chunks, name))
            /\ rag_response'[1].count = Len(policy_chunks) - Len(policy_chunks')
            /\ name \notin DOMAIN stats_after.by_policy
            /\ DOMAIN stats_after.by_policy = DOMAIN stats.by_policy \ {name}
            /\ \A other \in DOMAIN stats_after.by_policy :
                  stats_after.by_policy[other] = stats.by_policy[other]]_vars

\* delete_policy removed the two rows of one policy from a table that also
\* holds a row of the other policy.
C26_Witness ==
    /\ rag_request # <<>> /\ rag_request[1].endpoint = "delete_policy"
    /\ rag_request[1].policy_name = MSIG
    /\ rag_response[1].count = 2
    /\ Len(policy_chunks) = 1 /\ policy_chunks[1].policy_name = Zurich

\* --------------------------------------------------------------- C28
\* C28: for every request analyze accepted, each request a tool of the run
\* has sent with the claim text as the query passes the retrieval engine's
\* validation, so that no search of the run is refused for the length of
\* its query.
C28_AcceptedTextSearchable ==
    \A r \in RunIds :
        (runs[r].request # <<>> /\ AnalyzeRequestValid(runs[r].request[1].claim_text)) =>
            LET request == runs[r].request[1]
                Sent(top_k, min_score) ==
                    ToolRequest(request.claim_text, request.region, request.category,
                                top_k, min_score)
            IN /\ runs[r].rag_outcome.clauses # "none" => SearchRequestValid(Sent(5, 40))
               /\ runs[r].rag_outcome.exclusions # "none" => SearchRequestValid(Sent(5, 30))
               /\ runs[r].rag_outcome.limits # "none" => SearchRequestValid(Sent(3, 30))

\* --------------------------------------------------------------- C29
\* The chunk is a row of the store with the run's region and category.
FromStore(content, state) ==
    \E i \in 1..Len(policy_chunks) :
        /\ policy_chunks[i].content.id = content.id
        /\ policy_chunks[i].region = state.region
        /\ policy_chunks[i].category = state.category

\* C29: every item of a run's evidence, exclusions_found and limits_found
\* is a chunk of the store with the run's region and category, an item of
\* evidence has a score of at least the 0.4 its search asked for, and a list
\* whose search could not reach the retrieval engine is empty.
C29_ListsFromRetrieval ==
    \A r \in RunIds :
        LET state == runs[r].state IN
        /\ \A i \in 1..Len(state.evidence) :
              /\ FromStore(state.evidence[i].content, state)
              /\ state.evidence[i].relevance_score >= 40
        /\ \A i \in 1..Len(state.exclusions_found) :
              FromStore(state.exclusions_found[i], state)
        /\ \A i \in 1..Len(state.limits_found) :
              FromStore(state.limits_found[i], state)
        /\ runs[r].rag_outcome.clauses = "exception" => state.evidence = <<>>
        /\ runs[r].rag_outcome.exclusions = "exception" => state.exclusions_found = <<>>
        /\ runs[r].rag_outcome.limits = "exception" => state.limits_found = <<>>

\* --------------------------------------------------------------- C30
\* The sum of the counts of a grouping.
RECURSIVE SumOfCounts(_)
SumOfCounts(counts) ==
    IF DOMAIN counts = {} THEN 0
    ELSE LET key == CHOOSE k \in DOMAIN counts : TRUE
         IN counts[key] + SumOfCounts([k \in DOMAIN counts \ {key} |-> counts[k]])

\* C30: the statistics get_stats returns, with ingest and delete_policy
\* calls served while it runs, have total_chunks equal to the sum of the
\* by_region counts, of the by_category counts and of the by_policy counts.
C30_StatsConsistent ==
    stats_query.pc = "returned" =>
        /\ stats_query.total_chunks = SumOfCounts(stats_query.by_region)
        /\ stats_query.total_chunks = SumOfCounts(stats_query.by_category)
        /\ stats_query.total_chunks = SumOfCounts(stats_query.by_policy)
====
